---- MODULE Spec2Model ----
(***************************************************************************)
(* State-machine model of AdvancedWorldSystem (the chunk streaming grid of *)
(* indian-frontier-aaa/src/game/AdvancedWorldSystem.ts).                   *)
(*                                                                         *)
(* Strings that the code builds and parses (chunk keys, mesh names) are    *)
(* sequences of one-character strings, so that formatting a coordinate and *)
(* parsing it back are computed, not assumed.  Positions are the x and z   *)
(* world coordinates of the player (y is never read by the grid); they are *)
(* integers, which is enough to stand on either side of every cell edge.   *)
(* A JavaScript Map / Set is modelled by a function / set: the insertion   *)
(* order they keep only decides the order of console lines.                *)
(*                                                                         *)
(* The game that drives the grid (unnamed/part_000), the player            *)
(* (Player.ts) and the interaction system (Interaction.ts) have their own  *)
(* variables and specifications; the Map of interactables is a sequence,   *)
(* because the detection loop depends on its order.                        *)
(***************************************************************************)
EXTENDS Integers, Sequences, FiniteSets, Bags, TLC

(***************************************************************************)
(* Bounds of the model.                                                    *)
(***************************************************************************)

\* largest renderDistance a configuration of the model uses
MaxRenderDistance == 1

\* how many times a cell generation may throw in one behaviour
MaxFailures == 2

\* how many times updatePlayerPosition is called in one behaviour
MaxMoves == 3

\* how many times a key is pressed
MaxPresses == 2

\* world coordinates (x axis) the player position is drawn from
PosX == {-1, 0, 99, 100, 600}

\* world coordinates (z axis) the player position is drawn from
PosZ == {-1, 0}

\* world positions getChunkAt is asked about, besides the player's own
QueryPositions == {<<250, -1>>}

\* the positions the player is moved to where generations may throw
GridPositions == {<<0, -1>>, <<0, 0>>, <<100, 0>>, <<600, 0>>}

\* a position beyond the integers a number holds exactly: <<m, z, e>> is
\* the position with x = m * 10^e and that z; this one is (10^20, 0)
HugePosition == <<1, 0, 20>>

\* names getEnvironment is asked about
QueryNames == {"market", "cave"}

\* configurations the grid is constructed with (part_000:242-248 is one)
Configs ==
  { [chunkSize |-> 100, renderDistance |-> rd, maxChunks |-> 25,
     enableDynamicLoading |-> TRUE, enableLOD |-> TRUE] :
       rd \in 0..MaxRenderDistance }

\* configurations with cell sizes that put cell centres on, just below and
\* just above the biome thresholds
BiomeConfigs ==
  { [chunkSize |-> size, renderDistance |-> 1, maxChunks |-> 25,
     enableDynamicLoading |-> TRUE, enableLOD |-> TRUE] :
       size \in {99, 100, 101, 300, 500} }

\* the configuration the game constructs the grid with
worldConfig ==
  [chunkSize |-> 100, renderDistance |-> 3, maxChunks |-> 25,
   enableDynamicLoading |-> TRUE, enableLOD |-> TRUE]

\* the game's configuration, and a small one with the other value of every
\* flag and a maxChunks below the size of its square
CapConfigs ==
  { worldConfig,
    [chunkSize |-> 100, renderDistance |-> 1, maxChunks |-> 4,
     enableDynamicLoading |-> FALSE, enableLOD |-> FALSE] }

(***************************************************************************)
(* Numbers and strings.                                                    *)
(***************************************************************************)

Abs(n) == IF n < 0 THEN -n ELSE n

Max(a, b) == IF a >= b THEN a ELSE b

\* a / b cut towards zero, as (a / b) | 0 or Math.trunc would
FloorDivTruncates(a, b) == IF a >= 0 THEN a \div b ELSE -((-a) \div b)

\* Math.floor(a / b) for an integer a and a positive integer b
FloorDiv(a, b) == IF a >= 0 THEN a \div b ELSE -((-a + b - 1) \div b)

Digits == <<"0", "1", "2", "3", "4", "5", "6", "7", "8", "9">>

RECURSIVE NatToStr(_)
NatToStr(n) ==
  IF n < 10 THEN <<Digits[n + 1]>>
  ELSE NatToStr(n \div 10) \o <<Digits[(n % 10) + 1]>>

\* String(n) of an integer n, as a template literal prints it
NumToStr(n) == IF n < 0 THEN <<"-">> \o NatToStr(-n) ELSE NatToStr(n)

\* `${x},${z}`
ChunkKey(x, z) == NumToStr(x) \o <<",">> \o NumToStr(z)

\* `chunk_${chunkKey}`
MeshName(key) == <<"chunk_">> \o key

\* str.split(','): the pieces between the commas
RECURSIVE Split(_)
Split(s) ==
  IF \A i \in 1..Len(s) : s[i] # ","
  THEN <<s>>
  ELSE LET i == CHOOSE j \in 1..Len(s) :
                  s[j] = "," /\ \A m \in 1..(j - 1) : s[m] # ","
       IN <<SubSeq(s, 1, i - 1)>> \o Split(SubSeq(s, i + 1, Len(s)))

DigitValue(c) == CHOOSE d \in 0..9 : Digits[d + 1] = c

IsDigit(c) == \E d \in 0..9 : Digits[d + 1] = c

RECURSIVE DigitsToNat(_)
DigitsToNat(s) ==
  IF Len(s) = 0 THEN 0
  ELSE 10 * DigitsToNat(SubSeq(s, 1, Len(s) - 1)) + DigitValue(s[Len(s)])

\* a JavaScript number: an integer, or NaN
Num(n) == [nan |-> FALSE, value |-> n]

NaN == [nan |-> TRUE, value |-> 0]

\* Number(str) that takes no sign: a negative numeral is NaN
NumberUnsigned(s) ==
  IF Len(s) = 0 THEN Num(0)
  ELSE IF \A i \in 1..Len(s) : IsDigit(s[i]) THEN Num(DigitsToNat(s))
  ELSE NaN

\* Number(str) for the strings a key can hold: "" is 0, an optional sign
\* and decimal digits is that integer, anything else is NaN
Number(s) ==
  IF Len(s) = 0 THEN Num(0)
  ELSE IF s[1] = "-" /\ Len(s) > 1 /\ \A i \in 2..Len(s) : IsDigit(s[i])
       THEN Num(-DigitsToNat(SubSeq(s, 2, Len(s))))
  ELSE IF \A i \in 1..Len(s) : IsDigit(s[i])
       THEN Num(DigitsToNat(s))
  ELSE NaN

\* const [x, z] = chunkKey.split(',').map(Number)
ParseKey(key) ==
  LET parts == Split(key)
  IN <<Number(parts[1]),
       IF Len(parts) >= 2 THEN Number(parts[2]) ELSE NaN>>

(***************************************************************************)
(* State.                                                                  *)
(***************************************************************************)

VARIABLES
  config,          \* this.config, fixed at construction
  initPc,          \* position of the asynchronous initializeWorldSystem
  environments,    \* this.environments: the names registered so far
  playerPosition,  \* this.playerPosition: <<x, z>>
  chunks,          \* this.chunks: chunk key -> chunk
  loadedChunks,    \* this.loadedChunks: set of chunk keys
  sceneMeshes,     \* terrain meshes in the scene, created and not disposed:
                   \* a bag of mesh names
  failures,        \* how many cell generations have thrown so far
  moves,           \* how many times updatePlayerPosition has been called
  lastOp,          \* the operation that ran last
  ret,             \* what it returned
  generated,       \* keys generateChunk was invoked for by the last operation
  regenerated,     \* those among them that were resident when it was invoked
  unloaded,        \* keys the last operation unloaded
  pre,             \* chunks, loadedChunks, sceneMeshes when it began
  tickCell,        \* the player's cell at the last tick, if it completed
  prevTickCell,    \* tickCell when the last operation began
  recording,       \* whether firstChunks, recreated and tickCells are kept:
                   \* fixed by the specification
  firstChunks,     \* chunk key -> the chunk first generated under that key
  recreated,       \* keys the last operation generated a chunk for that had
                   \* had a chunk generated before
  failed,          \* keys whose generation has thrown and not succeeded since
  tickCells,       \* the player's cells at the last ticks, the latest first:
                   \* up to three, back to the last tick that threw
  gameState,       \* the game's gameState: isPaused, graphicsQuality
  inputState,      \* the game's inputState: forward
  keysHeld,        \* the keys that are down
  presses,         \* key -> how many times it has been pressed and released
  characters,      \* characterSystem.characters: the names registered
  loadPc,          \* position of the asynchronous loadCharacterAssets
  chloeCharacter,  \* the game's chloeCharacter: a mesh or null
  characterPosition,  \* the position of the mesh of chloe_frazer
  frame,           \* the render loop: what runs next, and whether the
                   \* updateGame of this frame ran unpaused and passed the
                   \* character's position to the grid
  now,             \* Date.now(), in milliseconds
  mesh,            \* Player.mesh: its position, or no mesh
  stats,           \* Player.stats
  playerInputState,  \* Player.inputState: forward, run, jump
  playerState,     \* Player.state: isMoving, isJumping, canJump
  velocityY,       \* Player.velocity.y
  lastJumpTime,    \* Player.lastJumpTime
  lastStatUpdate,  \* Player.lastStatUpdate
  updating,        \* whether Player.update observes onBeforeRender
  interactableObjects,  \* Interaction.interactableObjects: the entries of
                   \* the Map in insertion order, each an id and an object
  currentTarget,   \* Interaction.currentTarget: an object or null
  interactionPrompt,  \* Interaction.interactionPrompt: isVisible, targetObject
  isInteracting,   \* Interaction.isInteracting
  lastInteractionTime,  \* Interaction.lastInteractionTime
  detecting,       \* whether updateInteractionDetection observes
                   \* onBeforeRender
  timeouts,        \* the pending timeouts of performInteraction: when each
                   \* is due, in the order they were set
  disposed,        \* the meshes of interactables that were disposed
  executed,        \* the actions performInteraction has run: the object
                   \* and Date.now() of each, the oldest first
  playOp,          \* the operation of the player or of the interaction
                   \* system that ran last, and what it did
  microtasks       \* the continuations of Player.init and Interaction.init
                   \* that wait behind their await, the oldest first

vars == <<config, initPc, environments, playerPosition, chunks, loadedChunks,
          sceneMeshes, failures, moves, lastOp, ret, generated, regenerated,
          unloaded, pre, tickCell, prevTickCell, recording, firstChunks,
          recreated, failed, tickCells, gameState, inputState, keysHeld, presses,
          characters, loadPc, chloeCharacter, characterPosition, frame,
          now, mesh, stats, playerInputState, playerState, velocityY,
          lastJumpTime, lastStatUpdate, updating, interactableObjects,
          currentTarget, interactionPrompt, isInteracting, lastInteractionTime,
          detecting, timeouts, disposed, executed, playOp, microtasks>>

\* the grid and the game
worldVars == <<config, initPc, environments, playerPosition, chunks,
               loadedChunks, sceneMeshes, failures, moves, lastOp, ret,
               generated, regenerated, unloaded, pre, tickCell, prevTickCell,
               recording, firstChunks, recreated, failed, tickCells, gameState,
               inputState, keysHeld, presses, characters, loadPc,
               chloeCharacter, characterPosition, frame>>

\* the player
playerVars == <<mesh, stats, playerInputState, playerState, velocityY,
                lastJumpTime, lastStatUpdate, updating>>

\* the interaction system
interactionVars == <<interactableObjects, currentTarget, interactionPrompt,
                     isInteracting, lastInteractionTime, detecting, timeouts,
                     disposed, executed>>

\* the player and the interaction system
playVars == <<now, playerVars, interactionVars, playOp, microtasks>>

gameVars == <<gameState, inputState, keysHeld, presses, characters, loadPc,
              chloeCharacter, characterPosition, frame>>

None == "none"

\* no cell
NoCell == <<>>

Undefined == "undefined"

EmptyMap == [k \in {} |-> Undefined]

\* the steps initializeWorldSystem still has to run once the constructor
\* has returned: the village environment is created before its first await
InitSteps == <<"forest", "mountains", "temple", "market">>

EnvironmentNames == {"village", "forest", "mountains", "temple", "market"}

\* the part of the object the load / unload pass works on, with its log
World(c, l, m) ==
  [chunks |-> c, loadedChunks |-> l, sceneMeshes |-> m,
   generated |-> {}, regenerated |-> {}, unloaded |-> {}, thrown |-> FALSE]

Snapshot == [chunks |-> chunks, loadedChunks |-> loadedChunks,
             sceneMeshes |-> sceneMeshes, failed |-> failed]

\* no generation throws
NoFail == [cell |-> NoCell, stage |-> None]

\* where a throwing generateChunk stops: in CreateGround (no mesh exists),
\* or after it (the mesh stays in the scene, owned by no chunk)
FailStages == {"ground", "afterGround"}

(***************************************************************************)
(* worldGenerator.                                                         *)
(***************************************************************************)

\* the comparison written <= in place of <
DistanceAtMost(x, z, d) == x * x + z * z <= d * d

\* Math.sqrt(x*x + z*z) < d, for integers
DistanceBelow(x, z, d) == x * x + z * z < d * d

\* getBiome taking the distance from the player instead of from the origin
GetBiomeAroundPlayer(x, z) ==
  LET dx == x - playerPosition[1]
      dz == z - playerPosition[2]
  IN IF DistanceBelow(dx, dz, 100) THEN "village"
     ELSE IF DistanceBelow(dx, dz, 300) THEN "forest"
     ELSE IF DistanceBelow(dx, dz, 500) THEN "mountains"
     ELSE "desert"

GetBiome(x, z) ==
  IF DistanceBelow(x, z, 100) THEN "village"
  ELSE IF DistanceBelow(x, z, 300) THEN "forest"
  ELSE IF DistanceBelow(x, z, 500) THEN "mountains"
  ELSE "desert"

\* a % b of JavaScript: the remainder has the sign of a
Rem(a, b) == IF a >= 0 THEN a % b ELSE -((-a) % b)

\* getHeight(x, z), with x and z given in half units (a vertex of a ground
\* of odd width lies on a half unit).  nx = (x / 100) % 1 and nz likewise
\* are kept in two-hundredths; the height is the value the three sine and
\* cosine products take at (nx, nz), which is kept as the pair itself
GetHeight(x, z) == [nx |-> Rem(x, 200), nz |-> Rem(z, 200)]

\* subdivisions of the ground mesh
Subdivisions == 50

\* the vertex rows and columns whose heights are kept: the first, the
\* middle and the last of the Subdivisions + 1
SampledLines == {0, Subdivisions \div 2, Subdivisions}

\* the local coordinate, in half units, of vertex line i of a ground that
\* is chunkSize wide and centred on its origin
VertexCoordinate(cfg, i) ==
  (2 * i * cfg.chunkSize) \div Subdivisions - cfg.chunkSize

\* the heights applyHeightMap writes, by vertex <<column, row>>
ApplyHeightMap(cfg, chunkX, chunkZ) ==
  [v \in SampledLines \X SampledLines |->
     GetHeight(VertexCoordinate(cfg, v[1]) + 2 * chunkX * cfg.chunkSize,
               VertexCoordinate(cfg, v[2]) + 2 * chunkZ * cfg.chunkSize)]

\* the chunk generateChunk returns, with the heights it gave the mesh
GenerateChunk(cfg, chunkX, chunkZ) ==
  [mesh |-> MeshName(ChunkKey(chunkX, chunkZ)),
   heights |-> ApplyHeightMap(cfg, chunkX, chunkZ),
   biome |-> GetBiome(chunkX * cfg.chunkSize, chunkZ * cfg.chunkSize),
   position |-> <<chunkX * cfg.chunkSize, 0, chunkZ * cfg.chunkSize>>]

(***************************************************************************)
(* Chunk loading.                                                          *)
(***************************************************************************)

\* the lookup made with the mesh name instead of the chunk key
IsLoadedByMeshName(w, key) == MeshName(key) \in w.loadedChunks

\* this.loadedChunks.has(chunkKey)
IsLoaded(w, key) == key \in w.loadedChunks

\* this.chunks.set(key, chunk)
MapSet(m, key, value) ==
  [k \in DOMAIN m \cup {key} |-> IF k = key THEN value ELSE m[k]]

\* loadChunk without its this.loadedChunks.add(chunkKey)
LoadChunkNoAdd(cfg, w, chunkX, chunkZ, fail) ==
  LET chunkKey == ChunkKey(chunkX, chunkZ)
  IN IF IsLoaded(w, chunkKey) THEN w
     ELSE [w EXCEPT
             !.generated = @ \cup {chunkKey},
             !.chunks = MapSet(@, chunkKey, GenerateChunk(cfg, chunkX, chunkZ)),
             !.sceneMeshes = @ (+) SetToBag({MeshName(chunkKey)})]

\* loadChunk that loads nothing once maxChunks chunks are loaded
LoadChunkCapped(cfg, w, chunkX, chunkZ, fail) ==
  LET chunkKey == ChunkKey(chunkX, chunkZ)
  IN IF IsLoaded(w, chunkKey) \/ Cardinality(w.loadedChunks) >= cfg.maxChunks
     THEN w
     ELSE [w EXCEPT
             !.generated = @ \cup {chunkKey},
             !.chunks = MapSet(@, chunkKey, GenerateChunk(cfg, chunkX, chunkZ)),
             !.loadedChunks = @ \cup {chunkKey},
             !.sceneMeshes = @ (+) SetToBag({MeshName(chunkKey)})]

LoadChunk(cfg, w, chunkX, chunkZ, fail) ==
  LET chunkKey == ChunkKey(chunkX, chunkZ)
      invoked == [w EXCEPT !.generated = @ \cup {chunkKey},
                           !.regenerated =
                              IF chunkKey \in w.loadedChunks
                              THEN @ \cup {chunkKey} ELSE @]
  IN IF IsLoaded(w, chunkKey) THEN w
     ELSE IF fail.cell = <<chunkX, chunkZ>>
          THEN [invoked EXCEPT
                  !.thrown = TRUE,
                  !.sceneMeshes =
                     IF fail.stage = "ground" THEN @
                     ELSE @ (+) SetToBag({MeshName(chunkKey)})]
          ELSE [invoked EXCEPT
                  !.chunks = MapSet(@, chunkKey,
                                    GenerateChunk(cfg, chunkX, chunkZ)),
                  !.loadedChunks = @ \cup {chunkKey},
                  !.sceneMeshes = @ (+) SetToBag({MeshName(chunkKey)})]

\* the loops with < in place of <= as their upper bounds
ScanCellsExclusive(chunkX, chunkZ, renderDistance) ==
  LET n == 2 * renderDistance
  IN [i \in 1..(n * n) |->
        <<chunkX - renderDistance + ((i - 1) \div n),
          chunkZ - renderDistance + ((i - 1) % n)>>]

\* the cells the two nested loops visit, in the order they visit them
ScanCells(chunkX, chunkZ, renderDistance) ==
  LET n == 2 * renderDistance + 1
  IN [i \in 1..(n * n) |->
        <<chunkX - renderDistance + ((i - 1) \div n),
          chunkZ - renderDistance + ((i - 1) % n)>>]

\* the load loop from its i-th cell on; an exception ends it
RECURSIVE LoadLoop(_, _, _, _, _)
LoadLoop(cfg, w, cells, i, fail) ==
  IF i > Len(cells) \/ w.thrown THEN w
  ELSE LET x == cells[i][1]
           z == cells[i][2]
           next == IF ~IsLoaded(w, ChunkKey(x, z))
                   THEN LoadChunk(cfg, w, x, z, fail)
                   ELSE w
       IN LoadLoop(cfg, next, cells, i + 1, fail)

\* the distance taken with Math.min in place of Math.max
DistanceExceedsMin(key, playerChunkX, playerChunkZ, limit) ==
  LET xz == ParseKey(key)
      dx == Abs(xz[1].value - playerChunkX)
      dz == Abs(xz[2].value - playerChunkZ)
  IN /\ ~xz[1].nan
     /\ ~xz[2].nan
     /\ (IF dx <= dz THEN dx ELSE dz) > limit

\* Math.max(Math.abs(x - playerChunkX), Math.abs(z - playerChunkZ)) > limit;
\* a comparison with NaN is false
DistanceExceeds(key, playerChunkX, playerChunkZ, limit) ==
  LET xz == ParseKey(key)
  IN /\ ~xz[1].nan
     /\ ~xz[2].nan
     /\ Max(Abs(xz[1].value - playerChunkX),
            Abs(xz[2].value - playerChunkZ)) > limit

\* the test distance > renderDistance: unload with no hysteresis
ChunksToUnloadNoHysteresis(cfg, w, playerChunkX, playerChunkZ) ==
  {chunkKey \in w.loadedChunks :
     DistanceExceeds(chunkKey, playerChunkX, playerChunkZ, cfg.renderDistance)}

\* the test distance > renderDistance + 2: one cell too many of hysteresis
ChunksToUnloadWide(cfg, w, playerChunkX, playerChunkZ) ==
  {chunkKey \in w.loadedChunks :
     DistanceExceeds(chunkKey, playerChunkX, playerChunkZ,
                     cfg.renderDistance + 2)}

ChunksToUnload(cfg, w, playerChunkX, playerChunkZ) ==
  {chunkKey \in w.loadedChunks :
     DistanceExceeds(chunkKey, playerChunkX, playerChunkZ,
                     cfg.renderDistance + 1)}

\* chunk.mesh.dispose() for every key of keys that has a chunk
DisposeMeshes(m, w, keys) ==
  m (-) SetToBag({w.chunks[k].mesh : k \in keys \cap DOMAIN w.chunks})

\* an unload pass with a budget of one chunk per tick
UnloadDistantChunksBudget(cfg, w, playerChunkX, playerChunkZ) ==
  LET far == ChunksToUnload(cfg, w, playerChunkX, playerChunkZ)
      chunksToUnload == IF far = {} THEN {} ELSE {CHOOSE k \in far : TRUE}
  IN [w EXCEPT
        !.sceneMeshes = DisposeMeshes(@, w, chunksToUnload),
        !.chunks = [k \in DOMAIN @ \ chunksToUnload |-> @[k]],
        !.loadedChunks = @ \ chunksToUnload,
        !.unloaded = chunksToUnload]

UnloadDistantChunks(cfg, w, playerChunkX, playerChunkZ) ==
  LET chunksToUnload == ChunksToUnload(cfg, w, playerChunkX, playerChunkZ)
  IN [w EXCEPT
        !.sceneMeshes = DisposeMeshes(@, w, chunksToUnload),
        !.chunks = [k \in DOMAIN @ \ chunksToUnload |-> @[k]],
        !.loadedChunks = @ \ chunksToUnload,
        !.unloaded = chunksToUnload]

\* the player's cell
PlayerCell(cfg, position) ==
  <<FloorDiv(position[1], cfg.chunkSize), FloorDiv(position[2], cfg.chunkSize)>>

UpdateChunkLoading(cfg, position, w, fail) ==
  LET cell == PlayerCell(cfg, position)
      loaded == LoadLoop(cfg, w,
                         ScanCells(cell[1], cell[2], cfg.renderDistance),
                         1, fail)
  IN IF loaded.thrown THEN loaded
     ELSE UnloadDistantChunks(cfg, loaded, cell[1], cell[2])

\* the cells whose generation may throw in the next tick: of the cells the
\* tick would generate, the one it reaches first and the one it reaches last
FailCells ==
  LET cell == PlayerCell(config, playerPosition)
      cells == ScanCells(cell[1], cell[2], config.renderDistance)
      missing == {j \in 1..Len(cells) :
                    ChunkKey(cells[j][1], cells[j][2]) \notin loadedChunks}
  IN {cells[i] : i \in {j \in missing :
                          \/ \A m \in missing : j <= m
                          \/ \A m \in missing : j >= m}}

(***************************************************************************)
(* The player (Player.ts).  Health, hydration and stamina are counted in   *)
(* halves of a point, the smallest step the code takes (0.5), experience   *)
(* in points; lengths are counted in hundredths of a unit, the precision   *)
(* of the speeds and of gravity; times are milliseconds.                   *)
(***************************************************************************)

\* a number of stat points, in halves
Points(n) == 2 * n

\* a length in units, in hundredths
Units(n) == 100 * n

Min(a, b) == IF a < b THEN a ELSE b

\* Date.now() when the program starts
StartTime == 100000

\* how far Date.now() advances in one behaviour
MaxElapsed == 800

\* Player.mesh before createCharacter
NoMesh == <<>>

moveSpeed == 15

runSpeed == 25

jumpForce == 80

gravity == 0 - 2

groundY == 100

jumpCooldown == 500

\* heal without the upper bound
HealUnbounded(st, amount) == [st EXCEPT !.health = @ + amount]

Heal(st, amount) == [st EXCEPT !.health = Min(Points(100), @ + amount)]

AddHydration(st, amount) ==
  [st EXCEPT !.hydration = Min(Points(100), @ + amount)]

AddStamina(st, amount) == [st EXCEPT !.stamina = Min(Points(100), @ + amount)]

\* addExperience that heals only when a single level is gained
AddExperienceOneLevel(st, amount) ==
  LET experience == st.experience + amount
      newLevel == FloorDiv(experience, 100) + 1
  IN IF newLevel > st.level
     THEN [st EXCEPT !.experience = experience, !.level = newLevel,
                     !.health = IF newLevel = st.level + 1 THEN Points(100)
                                ELSE @]
     ELSE [st EXCEPT !.experience = experience]

AddExperience(st, amount) ==
  LET experience == st.experience + amount
      newLevel == FloorDiv(experience, 100) + 1
  IN IF newLevel > st.level
     THEN [st EXCEPT !.experience = experience, !.level = newLevel,
                     !.health = Points(100)]
     ELSE [st EXCEPT !.experience = experience]

\* the fields of a new Player
PlayerConstructed ==
  /\ mesh = NoMesh
  /\ stats = [health |-> Points(100), hydration |-> Points(100),
              stamina |-> Points(100), experience |-> 0, level |-> 1]
  /\ playerInputState = [forward |-> FALSE, run |-> FALSE, jump |-> FALSE]
  /\ playerState = [isMoving |-> FALSE, isJumping |-> FALSE, canJump |-> TRUE]
  /\ velocityY = 0
  /\ lastJumpTime = 0
  /\ lastStatUpdate = StartTime
  /\ updating = FALSE

(***************************************************************************)
(* Operations.                                                             *)
(***************************************************************************)

Null == "null"

\* the keys of the keyboard that are pressed
Keys == {"escape", "g", "w"}

KEYDOWN == "keydown"

KEYUP == "keyup"

(***************************************************************************)
(* The interaction system (Interaction.ts).  An interactable object is     *)
(* named by its name field; its mesh, type, position, activity and action  *)
(* are read from the table Interactables.  The Map of interactables is the *)
(* sequence of its entries, in the insertion order a for-of loop visits.   *)
(* The materials a highlight swaps are left out: neither the target nor    *)
(* the prompt reads them.                                                  *)
(***************************************************************************)

interactionRange == 5

interactionCooldown == 500

\* the delay of the timeout that resets isInteracting
ResetDelay == 300

\* the objects createDefaultInteractables creates, in its order
DefaultInteractables ==
  <<"Sacred Water Source", "Mango", "Coconut", "Climbable Wall",
    "Ancient Treasure Chest", "Temple Door">>

\* objects the owner of the system hands to addInteractable: one whose
\* action throws, two units from the mango, and an inactive one, five
\* units from the mango
ExtraInteractables == {"Trap", "Ghost"}

Interactables ==
  [name \in {DefaultInteractables[i] : i \in 1..Len(DefaultInteractables)}
              \cup ExtraInteractables |->
     CASE name = "Sacred Water Source" ->
            [mesh |-> "waterSource", type |-> "water",
             position |-> <<Units(20), Units(0), Units(20)>>,
             isActive |-> TRUE, action |-> "water", nutritionValue |-> 0]
       [] name = "Mango" ->
            [mesh |-> "foodItem", type |-> "food",
             position |-> <<Units(-15), Units(1), Units(15)>>,
             isActive |-> TRUE, action |-> "food", nutritionValue |-> 25]
       [] name = "Coconut" ->
            [mesh |-> "foodItem", type |-> "food",
             position |-> <<Units(25), Units(1), Units(-10)>>,
             isActive |-> TRUE, action |-> "food", nutritionValue |-> 30]
       [] name = "Climbable Wall" ->
            [mesh |-> "climbable", type |-> "climbable",
             position |-> <<Units(0), Units(0), Units(30)>>,
             isActive |-> TRUE, action |-> "notify", nutritionValue |-> 0]
       [] name = "Ancient Treasure Chest" ->
            [mesh |-> "treasureChest", type |-> "chest",
             position |-> <<Units(-30), Units(0), Units(-20)>>,
             isActive |-> TRUE, action |-> "chest", nutritionValue |-> 0]
       [] name = "Temple Door" ->
            [mesh |-> "door", type |-> "door",
             position |-> <<Units(40), Units(0), Units(0)>>,
             isActive |-> TRUE, action |-> "notify", nutritionValue |-> 0]
       [] name = "Trap" ->
            [mesh |-> "trap", type |-> "pickup",
             position |-> <<Units(-13), Units(1), Units(15)>>,
             isActive |-> TRUE, action |-> "throw", nutritionValue |-> 0]
       [] name = "Ghost" ->
            [mesh |-> "ghost", type |-> "npc",
             position |-> <<Units(-15), Units(1), Units(20)>>,
             isActive |-> FALSE, action |-> "notify", nutritionValue |-> 0]]

\* where the player's mesh is put: on the mango, as far from the mango as
\* from the trap, on the trap, and on the ghost
PlayerPositions ==
  {<<Units(-15), groundY, Units(15)>>, <<Units(-14), groundY, Units(15)>>,
   <<Units(-13), groundY, Units(15)>>, <<Units(-15), groundY, Units(20)>>}

\* `${interactable.type}_${interactable.mesh.name}_${Date.now()}`: the
\* three parts; no type holds an underscore and a time is digits, so the
\* string and the parts determine each other
InteractableId(interactable, time) ==
  <<Interactables[interactable].type, Interactables[interactable].mesh, time>>

\* Map.set: the value of an existing key is replaced where the key stands,
\* a new key is put last
MapSetEntry(entries, id, object) ==
  IF \E i \in 1..Len(entries) : entries[i].id = id
  THEN [i \in 1..Len(entries) |->
          IF entries[i].id = id THEN [id |-> id, object |-> object]
          ELSE entries[i]]
  ELSE Append(entries, [id |-> id, object |-> object])

AddInteractable(entries, interactable, time) ==
  MapSetEntry(entries, InteractableId(interactable, time), interactable)

RemoveInteractable(entries, interactable) ==
  IF \E i \in 1..Len(entries) : entries[i].object = interactable
  THEN LET first == CHOOSE i \in 1..Len(entries) :
                      /\ entries[i].object = interactable
                      /\ \A j \in 1..(i - 1) : entries[j].object # interactable
       IN SubSeq(entries, 1, first - 1) \o SubSeq(entries, first + 1, Len(entries))
  ELSE entries

\* the objects of the Map
Registered(entries) == {entries[i].object : i \in 1..Len(entries)}

\* the square of Vector3.Distance(a, b), in squared hundredths: the
\* distance is its square root, which keeps the order of these integers
DistanceSquared(a, b) ==
  (a[1] - b[1]) * (a[1] - b[1]) + (a[2] - b[2]) * (a[2] - b[2])
    + (a[3] - b[3]) * (a[3] - b[3])

\* a detection loop that does not skip inactive objects
RECURSIVE ClosestAmongAll(_, _, _)
ClosestAmongAll(entries, position, closest) ==
  IF entries = <<>> THEN closest.object
  ELSE LET interactable == Head(entries).object
           distance == DistanceSquared(position,
                                       Interactables[interactable].position)
       IN IF distance < closest.distance
          THEN ClosestAmongAll(Tail(entries), position,
                               [object |-> interactable, distance |-> distance])
          ELSE ClosestAmongAll(Tail(entries), position, closest)

\* the loop of updateInteractionDetection over the entries that are left,
\* with the closest object so far and the square of its distance
RECURSIVE Closest(_, _, _)
Closest(entries, position, closest) ==
  IF entries = <<>> THEN closest.object
  ELSE LET interactable == Head(entries).object
           distance == DistanceSquared(position,
                                       Interactables[interactable].position)
       IN IF ~Interactables[interactable].isActive
          THEN Closest(Tail(entries), position, closest)
          ELSE IF distance < closest.distance
          THEN Closest(Tail(entries), position,
                       [object |-> interactable, distance |-> distance])
          ELSE Closest(Tail(entries), position, closest)

\* closestObject of updateInteractionDetection
ClosestObject(entries, position) ==
  Closest(entries, position,
          [object |-> Null,
           distance |-> Units(interactionRange) * Units(interactionRange)])

ShowInteractionPrompt(prompt, interactable) ==
  IF prompt.isVisible THEN prompt
  ELSE [isVisible |-> TRUE, targetObject |-> interactable]

HideInteractionPrompt(prompt) ==
  IF ~prompt.isVisible THEN prompt
  ELSE [isVisible |-> FALSE, targetObject |-> Null]

\* the prompt setCurrentTarget(target) leaves
SetCurrentTarget(prompt, target) ==
  IF target # Null THEN ShowInteractionPrompt(prompt, target)
  ELSE HideInteractionPrompt(prompt)

\* a cooldown that lets a press through from 300 ms on
CooldownShort(time, last) == time - last < ResetDelay

\* whether performInteraction returns at once
Cooldown(time, last) == time - last < interactionCooldown

\* what the action of an interactable does to the player's stats, to the
\* entries of the Map and to the disposed meshes, and whether it throws
Action(interactable, st, entries, gone) ==
  LET o == Interactables[interactable]
  IN CASE o.action = "water" ->
            [stats |-> IF st.hydration < Points(100)
                       THEN AddHydration(st, Points(50)) ELSE st,
             entries |-> entries, disposed |-> gone, thrown |-> FALSE]
       [] o.action = "food" ->
            [stats |-> AddExperience(
                         \* nutritionValue * 0.5 points are
                         \* nutritionValue halves
                         AddStamina(Heal(st, Points(o.nutritionValue)),
                                    o.nutritionValue),
                         10),
             entries |-> RemoveInteractable(entries, interactable),
             disposed |-> gone \cup {interactable}, thrown |-> FALSE]
       [] o.action = "chest" ->
            [stats |-> AddExperience(st, 50),
             entries |-> entries, disposed |-> gone, thrown |-> FALSE]
       [] o.action = "throw" ->
            [stats |-> st, entries |-> entries, disposed |-> gone,
             thrown |-> TRUE]
       [] OTHER ->
            [stats |-> st, entries |-> entries, disposed |-> gone,
             thrown |-> FALSE]

\* a reset that is set only when the action has returned
ResetAfterReturn(pending, time, thrown) ==
  IF thrown THEN pending ELSE Append(pending, time + ResetDelay)

\* the timeouts after the finally block of performInteraction
ResetAfter(pending, time, thrown) == Append(pending, time + ResetDelay)

\* the fields of a new Interaction
InteractionConstructed ==
  /\ interactableObjects = <<>>
  /\ currentTarget = Null
  /\ interactionPrompt = [isVisible |-> FALSE, targetObject |-> Null]
  /\ isInteracting = FALSE
  /\ lastInteractionTime = 0
  /\ detecting = FALSE
  /\ timeouts = <<>>
  /\ disposed = {}
  /\ executed = <<>>

\* a player and an interaction system, constructed and not initialised
PlayConstructed ==
  /\ now = StartTime
  /\ PlayerConstructed
  /\ InteractionConstructed
  /\ playOp = [name |-> "constructor"]
  /\ microtasks = <<>>

\* the models loadCharacterAssets imports, in its order
CharacterModels == <<"chloe_frazer", "merchant", "guard">>

\* characterSystem.getCharacter(name)
GetCharacter(registered, name) ==
  IF name \in registered THEN name ELSE Undefined

\* the game when initializeGame has returned: it asks the character system
\* for chloe_frazer right after constructing it, when the first import of
\* loadCharacterAssets is still pending and no character is registered
GameInitialized ==
  /\ gameState = [isPaused |-> FALSE, graphicsQuality |-> "ultra"]
  /\ inputState = [forward |-> FALSE]
  /\ keysHeld = {}
  /\ presses = [k \in Keys |-> 0]
  /\ characters = {}
  /\ loadPc = 1
  /\ chloeCharacter = IF GetCharacter({}, "chloe_frazer") # Undefined
                      THEN GetCharacter({}, "chloe_frazer") ELSE Null
  /\ characterPosition = <<0, 0>>
  /\ frame = [pc |-> "updateGame", unpaused |-> FALSE, passed |-> FALSE]

\* the object the constructor leaves, for a configuration out of configs
Constructed(configs) ==
  /\ GameInitialized
  /\ config \in configs
  /\ initPc = 1
  /\ environments = {"village"}
  /\ playerPosition = <<0, 0>>
  /\ chunks = EmptyMap
  /\ loadedChunks = {}
  /\ sceneMeshes = EmptyBag
  /\ failures = 0
  /\ moves = 0
  /\ lastOp = "constructor"
  /\ ret = None
  /\ generated = {}
  /\ regenerated = {}
  /\ unloaded = {}
  /\ pre = [chunks |-> EmptyMap, loadedChunks |-> {}, sceneMeshes |-> EmptyBag,
            failed |-> {}]
  /\ tickCell = NoCell
  /\ prevTickCell = NoCell
  /\ firstChunks = EmptyMap
  /\ recreated = {}
  /\ failed = {}
  /\ tickCells = <<>>

Init == Constructed(Configs) /\ recording = FALSE /\ PlayConstructed

InitBiome == Constructed(BiomeConfigs) /\ recording = FALSE /\ PlayConstructed

InitCap == Constructed(CapConfigs) /\ recording = FALSE /\ PlayConstructed

\* as Init, with the history of generations and ticks kept
InitRecording == Constructed(Configs) /\ recording = TRUE /\ PlayConstructed

\* what every operation but a tick leaves behind in the log
NoChunkLog ==
  /\ generated' = {}
  /\ regenerated' = {}
  /\ unloaded' = {}
  /\ pre' = Snapshot
  /\ prevTickCell' = tickCell
  /\ recreated' = {}
  /\ UNCHANGED <<tickCell, failures, recording, firstChunks, failed, tickCells>>
  /\ UNCHANGED playVars

\* an operation of the grid that chunk loading and the game have no part in
NoChunkWork ==
  /\ NoChunkLog
  /\ UNCHANGED gameVars

\* initializeWorldSystem resumes after an await and creates one environment
CreateEnvironment ==
  /\ initPc <= Len(InitSteps)
  /\ environments' = environments \cup {InitSteps[initPc]}
  /\ initPc' = initPc + 1
  /\ lastOp' = "createEnvironment"
  /\ ret' = None
  /\ NoChunkWork
  /\ UNCHANGED <<config, playerPosition, moves, chunks, loadedChunks,
                 sceneMeshes>>

\* the tick is registered with scene.onBeforeRenderObservable
SetupDynamicLoading ==
  /\ initPc = Len(InitSteps) + 1
  /\ initPc' = initPc + 1
  /\ lastOp' = "setupDynamicLoading"
  /\ ret' = None
  /\ NoChunkWork
  /\ UNCHANGED <<config, environments, playerPosition, moves, chunks,
                 loadedChunks, sceneMeshes>>

TickRegistered == initPc = Len(InitSteps) + 2

\* updatePlayerPosition that also runs the load / unload pass at once
UpdatePlayerPositionEager(position) ==
  LET w == UpdateChunkLoading(config, position,
                              World(chunks, loadedChunks, sceneMeshes), NoFail)
  IN /\ moves < MaxMoves
     /\ moves' = moves + 1
     /\ playerPosition' = position
     /\ lastOp' = "updatePlayerPosition"
     /\ ret' = None
     /\ chunks' = w.chunks
     /\ loadedChunks' = w.loadedChunks
     /\ sceneMeshes' = w.sceneMeshes
     /\ NoChunkWork
     /\ UNCHANGED <<config, initPc, environments>>

UpdatePlayerPosition(position) ==
  /\ moves < MaxMoves
  /\ moves' = moves + 1
  /\ playerPosition' = position
  /\ lastOp' = "updatePlayerPosition"
  /\ ret' = None
  /\ NoChunkWork
  /\ UNCHANGED <<config, initPc, environments, chunks, loadedChunks,
                 sceneMeshes>>

\* one run of the registered observer with the outcome w of updateChunkLoading
TickEffect(w) ==
  /\ chunks' = w.chunks
  /\ loadedChunks' = w.loadedChunks
  /\ sceneMeshes' = w.sceneMeshes
  /\ generated' = w.generated
  /\ regenerated' = w.regenerated
  /\ unloaded' = w.unloaded
  /\ pre' = Snapshot
  /\ prevTickCell' = tickCell
  /\ LET made == IF recording THEN w.generated \cap DOMAIN w.chunks ELSE {}
     IN /\ firstChunks' = [k \in DOMAIN firstChunks \cup made |->
                             IF k \in DOMAIN firstChunks THEN firstChunks[k]
                             ELSE w.chunks[k]]
        /\ recreated' = made \cap DOMAIN firstChunks
  /\ failed' = (failed \cup (w.generated \ DOMAIN w.chunks)) \ w.loadedChunks
  /\ UNCHANGED recording
  /\ tickCells' = IF w.thrown \/ ~recording THEN <<>>
                  ELSE SubSeq(<<PlayerCell(config, playerPosition)>> \o tickCells,
                              1, Max(1, IF Len(tickCells) >= 2 THEN 3
                                        ELSE Len(tickCells) + 1))
  /\ ret' = None
  /\ UNCHANGED <<config, initPc, environments, playerPosition, moves>>
  /\ UNCHANGED playVars

IsHuge(position) == Len(position) = 3

\* `${chunkX}` for chunkX = Math.floor(position.x / chunkSize) of a huge
\* position and chunkSize 100: the digits of m, and e - 2 zeros
HugeChunkX(position) ==
  NatToStr(position[1]) \o [i \in 1..(position[3] - 2) |-> "0"]

\* the chunk generateChunk returns for the column of a huge position: the
\* additions of the vertex offsets are absorbed, (x / 100) % 1 is 0, and
\* the centre is farther than every biome threshold
HugeChunk(cfg, position, chunkZ) ==
  [mesh |-> <<"chunk_">> \o HugeChunkX(position) \o <<",">> \o NumToStr(chunkZ),
   heights |-> [v \in SampledLines \X SampledLines |->
                  [nx |-> 0,
                   nz |-> Rem(VertexCoordinate(cfg, v[2])
                                + 2 * chunkZ * cfg.chunkSize, 200)]],
   biome |-> "desert",
   position |-> <<position, 0, chunkZ * cfg.chunkSize>>]

\* a tick with the player at a huge position.  chunkX - renderDistance and
\* x++ both round back to chunkX, so the outer loop of updateChunkLoading
\* never ends: its first round loads the cells of column chunkX, every
\* later round finds them loaded, and the observer never returns
TickHangs ==
  /\ TickRegistered
  /\ IsHuge(playerPosition)
  /\ LET chunkZ == FloorDiv(playerPosition[2], config.chunkSize)
         column == (chunkZ - config.renderDistance)
                     ..(chunkZ + config.renderDistance)
         key(z) == HugeChunkX(playerPosition) \o <<",">> \o NumToStr(z)
         missing == {z \in column : key(z) \notin loadedChunks}
         new == {key(z) : z \in missing}
     IN /\ chunks' = [k \in DOMAIN chunks \cup new |->
                        IF k \in DOMAIN chunks THEN chunks[k]
                        ELSE HugeChunk(config, playerPosition,
                                       CHOOSE z \in missing : key(z) = k)]
        /\ loadedChunks' = loadedChunks \cup new
        /\ sceneMeshes' = sceneMeshes
                            (+) SetToBag({<<"chunk_">> \o k : k \in new})
        /\ generated' = new
  /\ regenerated' = {}
  /\ unloaded' = {}
  /\ pre' = Snapshot
  /\ prevTickCell' = tickCell
  /\ tickCell' = NoCell
  /\ tickCells' = <<>>
  /\ ret' = None
  /\ lastOp' = "tickHangs"
  /\ recreated' = {}
  /\ UNCHANGED <<config, initPc, environments, playerPosition, moves,
                 failures, failed, recording, firstChunks>>
  /\ UNCHANGED gameVars
  /\ UNCHANGED playVars

\* the observer is still running: nothing else runs
Hung == lastOp = "tickHangs"

\* a tick in which no generation throws
Tick ==
  /\ TickRegistered
  /\ ~IsHuge(playerPosition)
  /\ TickEffect(UpdateChunkLoading(config, playerPosition,
                                   World(chunks, loadedChunks, sceneMeshes),
                                   NoFail))
  /\ tickCell' = PlayerCell(config, playerPosition)
  /\ lastOp' = "tick"
  /\ UNCHANGED failures
  /\ UNCHANGED gameVars

\* a tick in which the generation of one missing cell throws: the exception
\* leaves updateChunkLoading before the unload pass
TickThrows ==
  /\ TickRegistered
  /\ failures < MaxFailures
  /\ \E cell \in FailCells, stage \in FailStages :
       TickEffect(UpdateChunkLoading(config, playerPosition,
                                     World(chunks, loadedChunks, sceneMeshes),
                                     [cell |-> cell, stage |-> stage]))
  /\ tickCell' = NoCell
  /\ lastOp' = "tickThrows"
  /\ failures' = failures + 1
  /\ UNCHANGED gameVars

\* Map.get of a key the chunks map does not hold: undefined, as a record
\* like the chunks it stands in for
NoChunk == [undefined |-> TRUE]

\* a lookup that falls back on the chunks map as it was before the last
\* operation
ChunkAtStale(x, z) ==
  LET cell == PlayerCell(config, <<x, z>>)
      chunkKey == ChunkKey(cell[1], cell[2])
  IN IF chunkKey \in DOMAIN chunks THEN chunks[chunkKey]
     ELSE IF chunkKey \in DOMAIN pre.chunks THEN pre.chunks[chunkKey]
     ELSE NoChunk

\* what getChunkAt(x, z) returns
ChunkAt(x, z) ==
  LET cell == PlayerCell(config, <<x, z>>)
      chunkKey == ChunkKey(cell[1], cell[2])
  IN IF chunkKey \in DOMAIN chunks THEN chunks[chunkKey] ELSE NoChunk

GetChunkAt(x, z) ==
  /\ ret' = ChunkAt(x, z)
  /\ lastOp' = "getChunkAt"
  /\ NoChunkWork
  /\ UNCHANGED <<config, initPc, environments, playerPosition, moves,
                 chunks, loadedChunks, sceneMeshes>>

GetEnvironment(name) ==
  /\ ret' = IF name \in environments THEN name ELSE Undefined
  /\ lastOp' = "getEnvironment"
  /\ NoChunkWork
  /\ UNCHANGED <<config, initPc, environments, playerPosition, moves,
                 chunks, loadedChunks, sceneMeshes>>

GetAllEnvironments ==
  /\ ret' = environments
  /\ lastOp' = "getAllEnvironments"
  /\ NoChunkWork
  /\ UNCHANGED <<config, initPc, environments, playerPosition, moves,
                 chunks, loadedChunks, sceneMeshes>>

(***************************************************************************)
(* The game: keyboard, character loading, and the render loop.             *)
(***************************************************************************)

TogglePause(gs) == [gs EXCEPT !.isPaused = ~@]

qualities == <<"low", "medium", "high", "ultra">>

\* array.indexOf(value), counted from 0; -1 when absent
IndexOf(array, value) ==
  IF \E i \in 1..Len(array) : array[i] = value
  THEN (CHOOSE i \in 1..Len(array) :
          array[i] = value /\ \A j \in 1..(i - 1) : array[j] # value) - 1
  ELSE -1

ToggleGraphicsQuality(gs) ==
  LET currentIndex == IndexOf(qualities, gs.graphicsQuality)
      nextIndex == (currentIndex + 1) % Len(qualities)
  IN [gs EXCEPT !.graphicsQuality = qualities[nextIndex + 1]]

\* the observer of scene.onKeyboardObservable gets an event of a key: a
\* key that is up goes down, a key that is down goes up
KeyboardEvent(key, type) ==
  LET isKeyDown == type = KEYDOWN
  IN /\ IF isKeyDown THEN key \notin keysHeld /\ presses[key] < MaxPresses
        ELSE key \in keysHeld
     /\ keysHeld' = IF isKeyDown THEN keysHeld \cup {key} ELSE keysHeld \ {key}
     /\ presses' = IF isKeyDown THEN presses
                   ELSE [presses EXCEPT ![key] = @ + 1]
     /\ inputState' = IF key = "w" THEN [inputState EXCEPT !.forward = isKeyDown]
                      ELSE inputState
     /\ gameState' = IF key = "escape" THEN TogglePause(gameState)
                     ELSE IF key = "g" THEN ToggleGraphicsQuality(gameState)
                     ELSE gameState
     /\ lastOp' = "keyboard"
     /\ ret' = None
     /\ NoChunkLog
     /\ UNCHANGED <<config, initPc, environments, playerPosition, moves, chunks,
                    loadedChunks, sceneMeshes, characters, loadPc,
                    chloeCharacter, characterPosition, frame>>

\* the import awaited by loadCharacterModel ends: with meshes (the character
\* is registered) or with an error (it is caught and logged)
LoadCharacterModel(imported) ==
  /\ loadPc <= Len(CharacterModels)
  /\ loadPc' = loadPc + 1
  /\ characters' = IF imported THEN characters \cup {CharacterModels[loadPc]}
                   ELSE characters
  /\ lastOp' = "loadCharacterModel"
  /\ ret' = None
  /\ NoChunkLog
  /\ UNCHANGED <<config, initPc, environments, playerPosition, moves, chunks,
                 loadedChunks, sceneMeshes, gameState, inputState, keysHeld,
                 presses, chloeCharacter, characterPosition, frame>>

\* updateGame, the first half of a frame.  updateChloeCharacter moves the
\* character when a direction key is held, by the camera's heading: to any
\* of GridPositions
UpdateGame ==
  /\ frame.pc = "updateGame"
  /\ lastOp' = "updateGame"
  /\ ret' = None
  /\ NoChunkLog
  /\ UNCHANGED <<config, initPc, environments, chunks, loadedChunks,
                 sceneMeshes, gameState, inputState, keysHeld, presses,
                 characters, loadPc, chloeCharacter>>
  /\ IF gameState.isPaused
     THEN /\ frame' = [pc |-> "render", unpaused |-> FALSE, passed |-> FALSE]
          /\ UNCHANGED <<playerPosition, moves, characterPosition>>
     ELSE IF chloeCharacter = Null
     THEN /\ frame' = [pc |-> "render", unpaused |-> TRUE, passed |-> FALSE]
          /\ UNCHANGED <<playerPosition, moves, characterPosition>>
     ELSE /\ moves < MaxMoves
          /\ moves' = moves + 1
          /\ \E position \in IF inputState.forward THEN GridPositions
                               ELSE {characterPosition} :
               /\ characterPosition' = position
               /\ playerPosition' = position
          /\ frame' = [pc |-> "render", unpaused |-> TRUE, passed |-> TRUE]

\* scene.render(), the second half of a frame: the observers of
\* onBeforeRenderObservable run
Render ==
  /\ frame.pc = "render"
  /\ frame' = [frame EXCEPT !.pc = "updateGame"]
  /\ UNCHANGED <<gameState, inputState, keysHeld, presses, characters, loadPc,
                 chloeCharacter, characterPosition>>
  /\ IF TickRegistered
     THEN /\ TickEffect(UpdateChunkLoading(config, playerPosition,
                                           World(chunks, loadedChunks,
                                                 sceneMeshes), NoFail))
          /\ tickCell' = PlayerCell(config, playerPosition)
          /\ lastOp' = "tick"
          /\ UNCHANGED failures
     ELSE /\ lastOp' = "render"
          /\ ret' = None
          /\ NoChunkLog
          /\ UNCHANGED <<config, initPc, environments, playerPosition, moves,
                         chunks, loadedChunks, sceneMeshes>>

NextGame ==
  \/ CreateEnvironment
  \/ SetupDynamicLoading
  \/ \E imported \in BOOLEAN : LoadCharacterModel(imported)
  \/ \E key \in Keys, type \in {KEYDOWN, KEYUP} : KeyboardEvent(key, type)
  \/ UpdateGame
  \/ Render

InitGame ==
  Constructed({worldConfig}) /\ recording = FALSE /\ PlayConstructed

\* the running game
SpecGame == InitGame /\ [][NextGame]_vars

(***************************************************************************)
(* The interaction system: its initialisation, the detection pass of each  *)
(* render frame, the keyboard, the reset timeout, and the public methods.  *)
(***************************************************************************)

\* the keys that are pressed while the interaction system listens
InteractionKeys == {"e", "f", "g"}

\* how far Date.now() advances between two operations
ClockSteps == {100}

\* the gaps between two objects of createDefaultInteractables in which a
\* millisecond of Date.now() passes: none, or the gap after the second
\* object
InitTicks == {{}, {2}}

\* the objects the owner removes with removeInteractable
Removable == {"Trap"}

\* time passes, once the continuations that wait have run
AdvanceClock(d) ==
  /\ microtasks = <<>>
  /\ now + d - StartTime <= MaxElapsed
  /\ now' = now + d
  /\ playOp' = [name |-> "clock"]
  /\ UNCHANGED <<playerVars, interactionVars, worldVars, microtasks>>

\* Player.init up to its await: createCharacter makes the mesh, and the
\* rest of init waits as a microtask
PlayerInit ==
  /\ mesh = NoMesh
  /\ mesh' = <<Units(0), groundY, Units(0)>>
  /\ microtasks' = Append(microtasks, "player")
  /\ playOp' = [name |-> "playerInit"]
  /\ UNCHANGED <<now, stats, playerInputState, playerState, velocityY,
                 lastJumpTime, lastStatUpdate, updating, interactionVars,
                 worldVars>>

\* Player.init after its await: the keyboard observer and update are
\* registered
PlayerInitResumes ==
  /\ microtasks # <<>>
  /\ Head(microtasks) = "player"
  /\ microtasks' = Tail(microtasks)
  /\ updating' = TRUE
  /\ playOp' = [name |-> "playerInitResumes"]
  /\ UNCHANGED <<now, mesh, stats, playerInputState, playerState, velocityY,
                 lastJumpTime, lastStatUpdate, interactionVars, worldVars>>

\* the player's mesh is somewhere else when the next observer runs
MovePlayer(position) ==
  /\ mesh # NoMesh
  /\ mesh # position
  /\ mesh' = position
  /\ playOp' = [name |-> "move"]
  /\ UNCHANGED <<now, stats, playerInputState, playerState, velocityY,
                 lastJumpTime, lastStatUpdate, updating, interactionVars,
                 worldVars, microtasks>>

\* the entries after the objects from the i-th on are created, each at its
\* reading of Date.now()
RECURSIVE CreateFrom(_, _, _, _)
CreateFrom(entries, i, time, ticks) ==
  IF i > Len(DefaultInteractables) THEN entries
  ELSE CreateFrom(AddInteractable(entries, DefaultInteractables[i], time),
                  i + 1, IF i \in ticks THEN time + 1 ELSE time, ticks)

\* whether Interaction.init has been called
InteractionInitCalled ==
  detecting \/ \E i \in 1..Len(microtasks) : microtasks[i] = "interaction"

\* Interaction.init up to the end of its await: createDefaultInteractables
\* runs to its end without giving way, and the rest of init waits as a
\* microtask
InteractionInit ==
  /\ ~InteractionInitCalled
  /\ \E ticks \in InitTicks :
       /\ interactableObjects' = CreateFrom(interactableObjects, 1, now, ticks)
       /\ now' = now + Cardinality(ticks)
  /\ microtasks' = Append(microtasks, "interaction")
  /\ playOp' = [name |-> "interactionInit",
                before |-> Len(interactableObjects)]
  /\ UNCHANGED <<playerVars, currentTarget, interactionPrompt, isInteracting,
                 lastInteractionTime, detecting, timeouts, disposed, executed,
                 worldVars>>

\* Interaction.init after its await: startInteractionLoop registers the
\* detection pass
InteractionInitResumes ==
  /\ microtasks # <<>>
  /\ Head(microtasks) = "interaction"
  /\ microtasks' = Tail(microtasks)
  /\ detecting' = TRUE
  /\ playOp' = [name |-> "interactionInitResumes"]
  /\ UNCHANGED <<now, playerVars, interactableObjects, currentTarget,
                 interactionPrompt, isInteracting, lastInteractionTime,
                 timeouts, disposed, executed, worldVars>>

\* updateInteractionDetection, the observer of onBeforeRender
UpdateInteractionDetection ==
  /\ detecting
  /\ IF mesh = NoMesh
     THEN UNCHANGED <<currentTarget, interactionPrompt>>
     ELSE LET closestObject == ClosestObject(interactableObjects, mesh)
          IN IF closestObject # currentTarget
             THEN /\ currentTarget' = closestObject
                  /\ interactionPrompt' = SetCurrentTarget(interactionPrompt,
                                                           closestObject)
             ELSE UNCHANGED <<currentTarget, interactionPrompt>>
  /\ playOp' = [name |-> "detection", passed |-> mesh # NoMesh]
  /\ UNCHANGED <<now, playerVars, interactableObjects, isInteracting,
                 lastInteractionTime, detecting, timeouts, disposed, executed,
                 worldVars, microtasks>>

\* the observer of onKeyboardObservable, with performInteraction.  The
\* catch block takes every error and throws none: no error leaves
\* performInteraction
InteractionKey(key, type) ==
  /\ UNCHANGED <<now, mesh, playerInputState, playerState, velocityY,
                 lastJumpTime, lastStatUpdate, updating, currentTarget,
                 interactionPrompt, detecting, worldVars, microtasks>>
  /\ IF /\ type = KEYDOWN
        /\ key \in {"e", "f"}
        /\ currentTarget # Null
        /\ ~isInteracting
     THEN IF Cooldown(now, lastInteractionTime)
          THEN /\ playOp' = [name |-> "key", performed |-> FALSE,
                             rejected |-> TRUE, escaped |-> FALSE]
               /\ UNCHANGED <<stats, interactableObjects, isInteracting,
                              lastInteractionTime, timeouts, disposed,
                              executed>>
          ELSE LET done == Action(currentTarget, stats, interactableObjects,
                                  disposed)
               IN /\ lastInteractionTime' = now
                  /\ isInteracting' = TRUE
                  /\ stats' = done.stats
                  /\ interactableObjects' = done.entries
                  /\ disposed' = done.disposed
                  /\ timeouts' = ResetAfter(timeouts, now, done.thrown)
                  /\ executed' = Append(executed, [object |-> currentTarget,
                                                   time |-> now,
                                                   thrown |-> done.thrown])
                  /\ playOp' = [name |-> "key", key |-> key, type |-> type,
                                performed |-> TRUE, rejected |-> FALSE,
                                escaped |-> FALSE]
     ELSE /\ playOp' = [name |-> "key", performed |-> FALSE,
                        rejected |-> FALSE, escaped |-> FALSE]
          /\ UNCHANGED <<stats, interactableObjects, isInteracting,
                         lastInteractionTime, timeouts, disposed, executed>>

\* the oldest timeout of performInteraction is due and runs
ResetTimeout ==
  /\ microtasks = <<>>
  /\ timeouts # <<>>
  /\ Head(timeouts) <= now
  /\ timeouts' = Tail(timeouts)
  /\ isInteracting' = FALSE
  /\ playOp' = [name |-> "timeout"]
  /\ UNCHANGED <<now, playerVars, interactableObjects, currentTarget,
                 interactionPrompt, lastInteractionTime, detecting, disposed,
                 executed, worldVars, microtasks>>

\* addInteractable(interactable), called by the owner with an object that
\* is not registered, when the program starts
AddInteractableCall(interactable) ==
  /\ interactable \notin Registered(interactableObjects)
  /\ now <= StartTime + 1
  /\ interactableObjects' = AddInteractable(interactableObjects, interactable,
                                            now)
  /\ playOp' = [name |-> "addInteractable", object |-> interactable,
                before |-> interactableObjects]
  /\ UNCHANGED <<now, playerVars, currentTarget, interactionPrompt,
                 isInteracting, lastInteractionTime, detecting, timeouts,
                 disposed, executed, worldVars, microtasks>>

\* removeInteractable(interactable), called by the owner
RemoveInteractableCall(interactable) ==
  /\ interactableObjects' = RemoveInteractable(interactableObjects,
                                               interactable)
  /\ playOp' = [name |-> "removeInteractable", object |-> interactable,
                before |-> interactableObjects]
  /\ UNCHANGED <<now, playerVars, currentTarget, interactionPrompt,
                 isInteracting, lastInteractionTime, detecting, timeouts,
                 disposed, executed, worldVars, microtasks>>

NextInteraction ==
  \/ \E d \in ClockSteps : AdvanceClock(d)
  \/ PlayerInit
  \/ PlayerInitResumes
  \/ InteractionInitResumes
  \/ \E position \in PlayerPositions : MovePlayer(position)
  \/ InteractionInit
  \/ UpdateInteractionDetection
  \/ \E key \in InteractionKeys, type \in {KEYDOWN, KEYUP} :
       InteractionKey(key, type)
  \/ ResetTimeout
  \/ \E interactable \in ExtraInteractables :
       AddInteractableCall(interactable)
  \/ \E interactable \in Removable : RemoveInteractableCall(interactable)

\* the interaction system and the player it reads
SpecInteraction == InitGame /\ [][NextInteraction]_vars

(***************************************************************************)
(* The player: its keyboard, the update of each render frame, and the      *)
(* public methods that add to its stats.  The crouch key is not pressed    *)
(* and the mouse is not moved: moveSpeed keeps its value and forward is    *)
(* the z axis.                                                             *)
(***************************************************************************)

\* the keys that are pressed while the player listens
PlayerKeys == {"w", "shift", " "}

\* how far Date.now() advances between two frames
FrameTimes == {0, 600}

\* how far Date.now() advances over the frames of one behaviour
MaxFrameElapsed == 1200

\* how far the player walks
MaxWalk == 50

\* the amounts heal, addHydration and addStamina are called with, in halves
\* of a point
Amounts == {Points(1000)}

\* the amounts addExperience is called with
ExperienceAmounts == {0, 50, 250}

\* the amount addExperience is called with while the player moves
LevelUpAmounts == {250}

\* how many times the player is hurt from full health
MaxHits == 1

\* how much experience is added in one behaviour
MaxExperience == 350

\* the player at construction, and after a long run on dangerous ground
\* without water: 1 health, no hydration and 20.5 stamina
PlayedStats ==
  {[health |-> Points(100), hydration |-> Points(100),
    stamina |-> Points(100), experience |-> 0, level |-> 1],
   [health |-> Points(1), hydration |-> 0, stamina |-> Points(20) + 1,
    experience |-> 0, level |-> 1]}

\* the frames in which the model lets the ground be dangerous: the first
\* from full health, and those that end at no health
Hurt(st) ==
  \/ st.health > Points(100) - MaxHits * Points(1)
  \/ st.health <= Points(1)

\* the observer of onKeyboardObservable of setupControls: input is taken
\* only while the pointer is locked
PlayerKey(key, type, isPointerLocked) ==
  LET isKeyDown == type = KEYDOWN
  IN /\ updating
     /\ playerInputState' =
          IF ~isPointerLocked THEN playerInputState
          ELSE IF key = "w" THEN [playerInputState EXCEPT !.forward = isKeyDown]
          ELSE IF key = "shift" THEN [playerInputState EXCEPT !.run = isKeyDown]
          ELSE IF key = " " THEN [playerInputState EXCEPT !.jump = isKeyDown]
          ELSE playerInputState
     /\ playOp' = [name |-> "playerKey"]
     /\ UNCHANGED <<now, mesh, stats, playerState, velocityY, lastJumpTime,
                    lastStatUpdate, updating, interactionVars, worldVars,
                    microtasks>>

\* a jump that asks for no stamina
JumpsTired(input, state, st, time, last) ==
  input.jump /\ state.canJump /\ time - last > jumpCooldown

\* whether updateMovement starts a jump
Jumps(input, state, st, time, last) ==
  /\ input.jump /\ state.canJump /\ st.stamina > Points(20)
  /\ time - last > jumpCooldown

\* updateMovement at Date.now() = time: the mesh position, stats, state,
\* velocity and lastJumpTime it leaves, and whether a jump began
UpdateMovement(position, input, state, st, velocity, last, time) ==
  LET currentSpeed == IF input.run THEN runSpeed ELSE moveSpeed
      moving == input.forward
      walked == IF moving
                THEN <<position[1], position[2], position[3] + currentSpeed>>
                ELSE position
      spent == IF moving /\ input.run
               THEN [st EXCEPT !.stamina = Max(0, @ - 1)] ELSE st
      jumps == Jumps(input, state, spent, time, last)
      jumped == IF jumps THEN [spent EXCEPT !.stamina = @ - Points(20)]
                ELSE spent
      velocityJump == IF jumps THEN jumpForce ELSE velocity
      velocityFall == velocityJump + gravity
      y == walked[2] + velocityFall
      grounded == y <= groundY
  IN [mesh |-> <<walked[1], IF grounded THEN groundY ELSE y, walked[3]>>,
      stats |-> jumped,
      state |-> [isMoving |-> moving,
                 isJumping |-> IF grounded THEN FALSE
                               ELSE IF jumps THEN TRUE ELSE state.isJumping,
                 canJump |-> IF grounded THEN TRUE
                             ELSE IF jumps THEN FALSE ELSE state.canJump],
      velocity |-> IF grounded THEN 0 ELSE velocityFall,
      lastJumpTime |-> IF jumps THEN time ELSE last,
      jumps |-> jumps]

\* updateStats at Date.now() = time: the stats and lastStatUpdate it leaves
UpdateStats(st, last, time) ==
  IF time - last > 1000
  THEN LET thirsty == [st EXCEPT !.hydration = Max(0, @ - 1),
                                 !.stamina = Min(Points(100), @ + Points(1))]
       IN [stats |-> IF thirsty.hydration = 0
                     THEN [thirsty EXCEPT !.health = Max(0, @ - 1)]
                     ELSE thirsty,
           lastStatUpdate |-> time]
  ELSE [stats |-> st, lastStatUpdate |-> last]

\* checkCollisions, when the ray down from the player hits a mesh whose
\* name includes "dangerous" or does not
CheckCollisions(st, dangerous) ==
  IF dangerous THEN [st EXCEPT !.health = Max(0, @ - Points(1))] ELSE st

\* Player.update, the observer of onBeforeRender, elapsed ms after the
\* frame before
PlayerUpdate(elapsed, dangerous) ==
  /\ updating
  /\ now + elapsed - StartTime <= MaxFrameElapsed
  /\ dangerous => Hurt(stats)
  /\ LET time == now + elapsed
         moved == UpdateMovement(mesh, playerInputState, playerState, stats,
                                 velocityY, lastJumpTime, time)
         aged == UpdateStats(moved.stats, lastStatUpdate, time)
     IN /\ moved.mesh[3] <= MaxWalk
        /\ now' = time
        /\ mesh' = moved.mesh
        /\ playerState' = moved.state
        /\ velocityY' = moved.velocity
        /\ lastJumpTime' = moved.lastJumpTime
        /\ lastStatUpdate' = aged.lastStatUpdate
        /\ stats' = CheckCollisions(aged.stats, dangerous)
        /\ playOp' = [name |-> "update", jumped |-> moved.jumps]
  /\ UNCHANGED <<playerInputState, updating, interactionVars, worldVars,
                 microtasks>>

\* a public method of the player is called with an amount
StatCall(name, st) ==
  /\ stats' = st
  /\ playOp' = [name |-> name]
  /\ UNCHANGED <<now, mesh, playerInputState, playerState, velocityY,
                 lastJumpTime, lastStatUpdate, updating, interactionVars,
                 worldVars, microtasks>>

HealCall(amount) == StatCall("heal", Heal(stats, amount))

AddHydrationCall(amount) ==
  StatCall("addHydration", AddHydration(stats, amount))

AddStaminaCall(amount) == StatCall("addStamina", AddStamina(stats, amount))

AddExperienceCall(amount) ==
  /\ stats.experience + amount <= MaxExperience
  /\ stats' = AddExperience(stats, amount)
  /\ playOp' = [name |-> "addExperience", amount |-> amount, before |-> stats]
  /\ UNCHANGED <<now, mesh, playerInputState, playerState, velocityY,
                 lastJumpTime, lastStatUpdate, updating, interactionVars,
                 worldVars, microtasks>>

\* the player stands on the ground
Standing == playerState.canJump

\* the frames and calls of the model: while the player is in the air no
\* key changes, no method is called, and the frames follow each other
\* within the millisecond over safe ground
NextPlayer ==
  \/ PlayerInit
  \/ PlayerInitResumes
  \/ Standing /\ \E key \in PlayerKeys, type \in {KEYDOWN, KEYUP},
                     locked \in BOOLEAN : PlayerKey(key, type, locked)
  \/ \E elapsed \in FrameTimes, dangerous \in BOOLEAN :
       /\ ~Standing => elapsed = 0 /\ ~dangerous
       /\ PlayerUpdate(elapsed, dangerous)
  \/ Standing /\ \E amount \in Amounts : HealCall(amount)
  \/ Standing /\ \E amount \in Amounts : AddHydrationCall(amount)
  \/ Standing /\ \E amount \in Amounts : AddStaminaCall(amount)
  \/ Standing /\ \E amount \in LevelUpAmounts : AddExperienceCall(amount)

\* a player in the middle of a game
InitPlayer ==
  /\ Constructed({worldConfig})
  /\ recording = FALSE
  /\ now = StartTime
  /\ InteractionConstructed
  /\ playOp = [name |-> "constructor"]
  /\ microtasks = <<>>
  /\ mesh = NoMesh
  /\ stats \in PlayedStats
  /\ playerInputState = [forward |-> FALSE, run |-> FALSE, jump |-> FALSE]
  /\ playerState = [isMoving |-> FALSE, isJumping |-> FALSE, canJump |-> TRUE]
  /\ velocityY = 0
  /\ lastJumpTime = 0
  /\ lastStatUpdate = StartTime
  /\ updating = FALSE

\* the player on its own
SpecPlayer == InitPlayer /\ [][NextPlayer]_vars

\* experience is added to a player that stands still and is hurt
NextLevel ==
  \/ PlayerInit
  \/ PlayerInitResumes
  \/ \E elapsed \in FrameTimes, dangerous \in BOOLEAN :
       PlayerUpdate(elapsed, dangerous)
  \/ \E amount \in ExperienceAmounts : AddExperienceCall(amount)

\* the levels of the player
SpecLevel == InitPlayer /\ [][NextLevel]_vars

(***************************************************************************)
(* The grid on its own.                                                    *)
(***************************************************************************)

Next ==
  \/ CreateEnvironment
  \/ SetupDynamicLoading
  \/ \E x \in PosX, z \in PosZ : UpdatePlayerPosition(<<x, z>>)
  \/ Tick
  \/ \E p \in QueryPositions \cup {playerPosition} : GetChunkAt(p[1], p[2])
  \/ \E name \in QueryNames : GetEnvironment(name)
  \/ GetAllEnvironments

\* every generation succeeds
Spec == Init /\ [][Next]_vars

NextThrows == Next \/ TickThrows

\* a generation may throw
SpecThrows == Init /\ [][NextThrows]_vars

\* the grid's own steps: the initialisation, moves, and ticks
NextGrid ==
  \/ CreateEnvironment
  \/ SetupDynamicLoading
  \/ \E position \in GridPositions : UpdatePlayerPosition(position)
  \/ Tick
  \/ TickThrows

\* a generation may throw; no queries
SpecGrid == Init /\ [][NextGrid]_vars

\* the grid with the square of nine cells
InitNine ==
  /\ Constructed({[worldConfig EXCEPT !.renderDistance = 1]})
  /\ recording = FALSE
  /\ PlayConstructed

\* positions in two adjacent cells and in a cell out of their range
NinePositions == {<<0, -1>>, <<0, 0>>, <<600, 0>>}

NextNine ==
  \/ CreateEnvironment
  \/ SetupDynamicLoading
  \/ \E position \in NinePositions : UpdatePlayerPosition(position)
  \/ Tick
  \/ TickThrows

\* a generation may throw; no queries; nine cells
SpecNine == InitNine /\ [][NextNine]_vars

\* the initialisation, moves, and ticks in which every generation succeeds
NextMoves ==
  \/ CreateEnvironment
  \/ SetupDynamicLoading
  \/ \E position \in GridPositions : UpdatePlayerPosition(position)
  \/ Tick

\* every generation succeeds; no queries; the game's configuration and a
\* small one
SpecCap == InitCap /\ [][NextMoves]_vars

\* every generation succeeds; no queries; the history is kept
SpecMoves == InitRecording /\ [][NextMoves]_vars

\* the initialisation, moves that may go to a huge position, and ticks
NextHuge ==
  \/ ~Hung /\ CreateEnvironment
  \/ ~Hung /\ SetupDynamicLoading
  \/ \E position \in GridPositions \cup {HugePosition} :
       ~Hung /\ UpdatePlayerPosition(position)
  \/ ~Hung /\ Tick
  \/ ~Hung /\ TickHangs

\* the player may go to a huge position
SpecHuge == Init /\ [][NextHuge]_vars

\* every generation succeeds; cell sizes around the biome thresholds
SpecBiome == InitBiome /\ [][Next]_vars

(***************************************************************************)
(* Vocabulary of the properties.  It is written from the statements, not   *)
(* from the code: the cell of a position is found by its defining          *)
(* inequality, and distances are taken on coordinates.                     *)
(***************************************************************************)

\* floor(p / size): the k with k * size <= p < (k + 1) * size
CellIndex(p, size) ==
  CHOOSE k \in -20..20 : k * size <= p /\ p < (k + 1) * size

\* the player's current cell
Cell == <<CellIndex(playerPosition[1], config.chunkSize),
          CellIndex(playerPosition[2], config.chunkSize)>>

RD == config.renderDistance

\* the keys of the cells at Chebyshev distance <= d from cell c
Square(c, d) ==
  {ChunkKey(x, z) : x \in (c[1] - d)..(c[1] + d), z \in (c[2] - d)..(c[2] + d)}

\* the keys of the cells at Chebyshev distance exactly d from cell c
Ring(c, d) == Square(c, d) \ Square(c, d - 1)

\* the last operation was a tick that ran to its end
TickCompleted == lastOp = "tick"

\* the meshes of a set of chunk keys, one each
MeshesOf(keys) == SetToBag({MeshName(k) : k \in keys})

\* the nine cells {-1,0,1} x {-1,0,1}, written out
NineCells ==
  { <<"-", "1", ",", "-", "1">>, <<"-", "1", ",", "0">>, <<"-", "1", ",", "1">>,
    <<"0", ",", "-", "1">>, <<"0", ",", "0">>, <<"0", ",", "1">>,
    <<"1", ",", "-", "1">>, <<"1", ",", "0">>, <<"1", ",", "1">> }

\* the cells (2,-1), (2,0), (2,1), written out
ColumnTwo ==
  { <<"2", ",", "-", "1">>, <<"2", ",", "0">>, <<"2", ",", "1">> }

\* cells a and b are neighbours along one axis
AxisAdjacent(a, b) ==
  \/ a[2] = b[2] /\ (a[1] - b[1] = 1 \/ b[1] - a[1] = 1)
  \/ a[1] = b[1] /\ (a[2] - b[2] = 1 \/ b[2] - a[2] = 1)

\* the column or row of the square around c that the square around its
\* axis neighbour a does not have
EnteredLine(a, c) == Square(c, RD) \ Square(a, RD)

(***************************************************************************)
(* C1 .. C10                                                               *)
(***************************************************************************)

\* C1 as stated: immediately after every tick the resident set is exactly
\* the set of cells at Chebyshev distance <= renderDistance from the
\* player's cell.
C1_ResidentExactlySquare ==
  TickCompleted => loadedChunks = Square(Cell, RD)

\* C1 amended: immediately after every completed tick the resident set is
\* the square of radius renderDistance around the player's cell together
\* with the cells that were resident before the tick at distance exactly
\* renderDistance + 1.
C1_ResidentSquarePlusKeptRing ==
  TickCompleted =>
    loadedChunks = Square(Cell, RD) \cup (pre.loadedChunks \cap Ring(Cell, RD + 1))

\* a completed tick after which a cell outside the square is resident
C1_Witness ==
  /\ TickCompleted
  /\ \E k \in loadedChunks : k \in Ring(Cell, RD + 1)
  /\ unloaded # {}

\* C2: after every completed tick every cell (x, z) with
\* max(|x - px|, |z - pz|) <= renderDistance, (px, pz) the floor of the
\* position over chunkSize, is resident (negative positions included).
C2_LoadCompleteness ==
  TickCompleted =>
    \A x \in (Cell[1] - RD)..(Cell[1] + RD), z \in (Cell[2] - RD)..(Cell[2] + RD) :
      /\ ChunkKey(x, z) \in loadedChunks
      /\ ChunkKey(x, z) \in DOMAIN chunks
      /\ chunks[ChunkKey(x, z)].position =
           <<x * config.chunkSize, 0, z * config.chunkSize>>

\* a completed tick at a negative position, with cells on both sides of 0
C2_Witness ==
  /\ TickCompleted
  /\ playerPosition = <<-1, -1>>
  /\ RD = 1
  /\ ChunkKey(-2, -2) \in loadedChunks
  /\ ChunkKey(0, 0) \in loadedChunks

\* C3: a tick destroys a resident cell (disposes its mesh, removes it from
\* the resident set) if and only if its Chebyshev distance from the player's
\* cell exceeds renderDistance + 1; so after a completed tick no resident
\* cell is farther than renderDistance + 1.
C3_UnloadRule ==
  TickCompleted =>
    /\ unloaded = (pre.loadedChunks \cup generated) \ Square(Cell, RD + 1)
    /\ loadedChunks = (pre.loadedChunks \cup generated) \ unloaded
    /\ DOMAIN chunks = loadedChunks
    /\ sceneMeshes = (pre.sceneMeshes (+) MeshesOf(generated)) (-) MeshesOf(unloaded)
    /\ loadedChunks \subseteq Square(Cell, RD + 1)

\* a completed tick that destroyed cells and kept one at renderDistance + 1
C3_Witness ==
  /\ TickCompleted
  /\ unloaded # {}
  /\ \E k \in pre.loadedChunks : k \in Ring(Cell, RD + 1) /\ k \in loadedChunks
  /\ \E k \in unloaded : k \in Ring(Cell, RD + 2)

\* C4: a resident cell whose distance from the player's cell has become
\* exactly renderDistance + 1 is not destroyed by the tick that sees it at
\* that distance: it is still resident after the tick.
C4_Hysteresis ==
  TickCompleted =>
    \A k \in pre.loadedChunks \cap Ring(Cell, RD + 1) :
      /\ k \in loadedChunks
      /\ k \in DOMAIN chunks
      /\ k \notin unloaded
      /\ BagIn(MeshName(k), sceneMeshes)

\* a completed tick that first sees a cell at renderDistance + 1: the cell
\* was in range at the tick before, and is kept
C4_Witness ==
  /\ TickCompleted
  /\ prevTickCell # NoCell
  /\ prevTickCell # Cell
  /\ \E k \in pre.loadedChunks :
       /\ k \in Square(prevTickCell, RD)
       /\ k \in Ring(Cell, RD + 1)
       /\ k \in loadedChunks

\* C5: when a tick follows a completed tick with the player still in the
\* same cell, it creates no cell and destroys no cell.
C5_TickIdempotent ==
  (TickCompleted /\ prevTickCell # NoCell /\ prevTickCell = Cell) =>
    /\ generated = {}
    /\ unloaded = {}
    /\ loadedChunks = pre.loadedChunks
    /\ chunks = pre.chunks
    /\ sceneMeshes = pre.sceneMeshes

\* a second tick in the same cell, on a grid that holds kept cells too
C5_Witness ==
  /\ TickCompleted
  /\ prevTickCell # NoCell
  /\ prevTickCell = Cell
  /\ loadedChunks # {}
  /\ loadedChunks # Square(Cell, RD)

\* C6: the grid holds at most one cell per coordinate pair, and
\* generateChunk is never invoked for a coordinate that is resident.
C6_Uniqueness ==
  /\ Cardinality({chunks[k].position : k \in DOMAIN chunks})
       = Cardinality(DOMAIN chunks)
  /\ Cardinality({ParseKey(k) : k \in loadedChunks}) = Cardinality(loadedChunks)
  /\ regenerated = {}
  /\ generated \cap pre.loadedChunks = {}

\* a tick that generated cells next to resident cells of its square, which
\* it did not generate again
C6_Witness ==
  /\ lastOp \in {"tick", "tickThrows"}
  /\ generated # {}
  /\ pre.loadedChunks \cap Square(Cell, RD) # {}

\* C7: from an empty grid the first tick creates exactly the
\* (2 * renderDistance + 1)^2 cells of the square around the player's cell
\* and destroys none; at the origin with chunkSize 100 and renderDistance 1
\* these are the nine cells {-1,0,1} x {-1,0,1}.
C7_InitialLoad ==
  (TickCompleted /\ pre.loadedChunks = {}) =>
    /\ generated = Square(Cell, RD)
    /\ Cardinality(generated) = (2 * RD + 1) * (2 * RD + 1)
    /\ loadedChunks = generated
    /\ DOMAIN chunks = generated
    /\ unloaded = {}
    /\ (playerPosition = <<0, 0>> /\ config.chunkSize = 100 /\ RD = 1)
         => generated = NineCells

\* the first tick, at the origin, with renderDistance 1
C7_Witness ==
  /\ TickCompleted
  /\ pre.loadedChunks = {}
  /\ playerPosition = <<0, 0>>
  /\ RD = 1
  /\ Cardinality(loadedChunks) = 9

\* C8 as stated: the tick that follows a one-cell move along an axis (from
\* the cell of the tick before) creates exactly the 2 * renderDistance + 1
\* cells of the newly entered column or row.
C8_MoveCreatesWholeLine ==
  (TickCompleted /\ prevTickCell # NoCell /\ AxisAdjacent(prevTickCell, Cell)) =>
    /\ generated = EnteredLine(prevTickCell, Cell)
    /\ Cardinality(generated) = 2 * RD + 1

\* C8 amended: the tick that follows a one-cell move along an axis creates
\* exactly those cells of the newly entered column or row that are not
\* resident yet, and destroys exactly the resident cells farther than
\* renderDistance + 1; when the resident set before it is the square around
\* the old cell it creates all 2 * renderDistance + 1 of them and destroys
\* none: (2,-1), (2,0), (2,1) for the move from (0,0) to (1,0) with
\* renderDistance 1.
C8_MoveCreatesMissingLine ==
  (TickCompleted /\ prevTickCell # NoCell /\ AxisAdjacent(prevTickCell, Cell)) =>
    /\ generated = EnteredLine(prevTickCell, Cell) \ pre.loadedChunks
    /\ unloaded = pre.loadedChunks \ Square(Cell, RD + 1)
    /\ pre.loadedChunks = Square(prevTickCell, RD) =>
         /\ generated = EnteredLine(prevTickCell, Cell)
         /\ Cardinality(generated) = 2 * RD + 1
         /\ unloaded = {}
    /\ (/\ RD = 1
        /\ prevTickCell = <<0, 0>>
        /\ Cell = <<1, 0>>
        /\ pre.loadedChunks = NineCells) => generated = ColumnTwo

\* the tick after the move from cell (0,0) to cell (1,0) on the nine cells
C8_Witness ==
  /\ TickCompleted
  /\ RD = 1
  /\ prevTickCell = <<0, 0>>
  /\ Cell = <<1, 0>>
  /\ pre.loadedChunks = NineCells
  /\ generated = ColumnTwo

\* C9: when every resident cell is farther than renderDistance + 1 from the
\* player's new cell, one tick creates the whole new square and destroys
\* every old cell; after it the resident set is exactly the new square.
C9_Teleport ==
  (/\ TickCompleted
   /\ pre.loadedChunks # {}
   /\ pre.loadedChunks \cap Square(Cell, RD + 1) = {}) =>
    /\ generated = Square(Cell, RD)
    /\ unloaded = pre.loadedChunks
    /\ loadedChunks = Square(Cell, RD)
    /\ DOMAIN chunks = Square(Cell, RD)
    /\ sceneMeshes = (pre.sceneMeshes (-) MeshesOf(pre.loadedChunks))
                       (+) MeshesOf(Square(Cell, RD))

\* a tick after a jump away from a grid of more cells than one square
C9_Witness ==
  /\ TickCompleted
  /\ pre.loadedChunks \cap Square(Cell, RD + 1) = {}
  /\ Cardinality(pre.loadedChunks) > (2 * RD + 1) * (2 * RD + 1)
  /\ unloaded = pre.loadedChunks
  /\ loadedChunks = Square(Cell, RD)

\* C10: updatePlayerPosition, getChunkAt, getEnvironment and
\* getAllEnvironments leave chunks, loadedChunks and the meshes as they
\* were; only a tick changes them.
C10_SingleMutator ==
  /\ lastOp \in {"updatePlayerPosition", "getChunkAt", "getEnvironment",
                 "getAllEnvironments"} =>
       /\ chunks = pre.chunks
       /\ loadedChunks = pre.loadedChunks
       /\ sceneMeshes = pre.sceneMeshes
  /\ (chunks # pre.chunks \/ loadedChunks # pre.loadedChunks) =>
       lastOp \in {"tick", "tickThrows"}

\* updatePlayerPosition has moved the player to a cell whose square is not
\* resident, and the grid is as it was
C10_Witness ==
  /\ lastOp = "updatePlayerPosition"
  /\ loadedChunks # {}
  /\ loadedChunks = pre.loadedChunks
  /\ ~(Square(Cell, RD) \subseteq loadedChunks)

(***************************************************************************)
(* C11 .. C20                                                              *)
(***************************************************************************)

\* the square of the straight-line distance from the world origin to the
\* centre of the surface of cell (x, z)
CentreDistanceSquared(x, z) ==
  (x * config.chunkSize) * (x * config.chunkSize)
    + (z * config.chunkSize) * (z * config.chunkSize)

\* the biome of the resident cell (x, z)
BiomeAt(x, z) == chunks[ChunkKey(x, z)].biome

\* C11: a created cell is village when the distance from the world origin to
\* its centre is < 100, forest when < 300, mountains when < 500 and desert
\* otherwise: 99 is village, 100 and 101 are forest, 300 is mountains and
\* 500 is desert.
C11_BiomeClassification ==
  TickCompleted =>
    \A x \in (Cell[1] - RD - 1)..(Cell[1] + RD + 1),
       z \in (Cell[2] - RD - 1)..(Cell[2] + RD + 1) :
      ChunkKey(x, z) \in DOMAIN chunks =>
        LET d2 == CentreDistanceSquared(x, z)
        IN /\ (BiomeAt(x, z) = "village") = (d2 < 10000)
           /\ (BiomeAt(x, z) = "forest") = (d2 >= 10000 /\ d2 < 90000)
           /\ (BiomeAt(x, z) = "mountains") = (d2 >= 90000 /\ d2 < 250000)
           /\ (BiomeAt(x, z) = "desert") = (d2 >= 250000)
           /\ (z = 0 /\ x * config.chunkSize = 99) => BiomeAt(x, z) = "village"
           /\ (z = 0 /\ x * config.chunkSize \in {100, 101})
                => BiomeAt(x, z) = "forest"
           /\ (z = 0 /\ x * config.chunkSize = 300) => BiomeAt(x, z) = "mountains"
           /\ (z = 0 /\ x * config.chunkSize = 500) => BiomeAt(x, z) = "desert"

\* a cell whose centre is at distance exactly 100 is resident next to the
\* village cell at the origin
C11_Witness ==
  /\ TickCompleted
  /\ config.chunkSize = 100
  /\ ChunkKey(0, 0) \in DOMAIN chunks
  /\ ChunkKey(1, 0) \in DOMAIN chunks
  /\ BiomeAt(0, 0) = "village"
  /\ BiomeAt(1, 0) = "forest"

\* C12: a cell that is created again under a coordinate it was created
\* under before gets the heights, the biome and the world-space origin it
\* got the first time, whatever moves, ticks and unloads lay in between.
C12_DeterministicRegeneration ==
  \A k \in DOMAIN chunks :
    /\ k \in DOMAIN firstChunks
    /\ chunks[k].heights = firstChunks[k].heights
    /\ chunks[k].biome = firstChunks[k].biome
    /\ chunks[k].position = firstChunks[k].position

\* a tick has created again a cell that an earlier tick had unloaded
C12_Witness ==
  /\ TickCompleted
  /\ \E k \in recreated :
       /\ k \notin pre.loadedChunks
       /\ k \in loadedChunks
       /\ chunks[k] = firstChunks[k]

\* a tick has run, to its end or to an exception
TickRan == lastOp \in {"tick", "tickThrows"}

\* the keys whose generation threw in the last operation
ThrownNow == generated \ DOMAIN chunks

\* C13: a cell whose creation failed is absent from the resident set after
\* that tick; every later tick that finds it in range and still missing
\* attempts its creation again; and when the attempt succeeds the cell is
\* resident.
C13_RetryEveryTick ==
  TickRan =>
    /\ \A k \in ThrownNow : k \notin loadedChunks
    /\ \A k \in pre.failed :
         k \in Square(Cell, RD) => k \in generated
    /\ \A k \in pre.failed \cap generated :
         k \notin ThrownNow => k \in loadedChunks

\* the configurations that differ from config at most in maxChunks,
\* enableDynamicLoading and enableLOD
UnusedFieldVariants ==
  {[config EXCEPT !.maxChunks = m, !.enableDynamicLoading = d, !.enableLOD = l] :
     m \in {0, 1, 25, 100}, d \in BOOLEAN, l \in BOOLEAN}

\* C14: a tick leaves the same resident set, whatever the values of
\* maxChunks, enableDynamicLoading and enableLOD: run from the state the
\* tick began in under any configuration that differs only in those three
\* fields, it ends with the resident set it ended with under config.
C14_UnusedConfiguration ==
  TickCompleted =>
    \A variant \in UnusedFieldVariants :
      LET w == UpdateChunkLoading(variant, playerPosition,
                                  World(pre.chunks, pre.loadedChunks,
                                        pre.sceneMeshes), NoFail)
      IN /\ w.loadedChunks = loadedChunks
         /\ DOMAIN w.chunks = DOMAIN chunks

\* under the game's configuration more cells are resident than maxChunks
C14_Witness ==
  /\ TickCompleted
  /\ config = worldConfig
  /\ Cardinality(loadedChunks) > config.maxChunks
  /\ unloaded # {}

\* C15: the terrain meshes that exist are exactly the meshes of the resident
\* cells, one each; a tick disposes the mesh of every cell it removes from
\* the resident set exactly once, and disposes the mesh of no cell that
\* stays resident.
C15_ResourceOwnership ==
  /\ sceneMeshes = MeshesOf(loadedChunks)
  /\ TickRan =>
       /\ \A k \in pre.loadedChunks \ loadedChunks :
            CopiesIn(MeshName(k), sceneMeshes)
              = CopiesIn(MeshName(k), pre.sceneMeshes) - 1
       /\ \A k \in pre.loadedChunks \cap loadedChunks :
            CopiesIn(MeshName(k), sceneMeshes)
              = CopiesIn(MeshName(k), pre.sceneMeshes)

\* C16: when the tick of a frame whose updateGame ran unpaused is about to
\* run, that updateGame has passed the character's position to the grid.
C16_PositionPassedEveryFrame ==
  (frame.pc = "render" /\ frame.unpaused) => frame.passed

\* the quality that many presses of G after the initial "ultra"
QualityAfter(n) ==
  qualities[((IndexOf(qualities, "ultra") + n) % Len(qualities)) + 1]

\* C17: with ESC released, the game is paused exactly when ESC has been
\* pressed an odd number of times: one press pauses, a second one resumes.
C17_EscapePauses ==
  "escape" \notin keysHeld =>
    (gameState.isPaused <=> presses["escape"] % 2 = 1)

\* C18: with G released, the graphics quality is the one that many single
\* steps of low -> medium -> high -> ultra -> low after the initial quality
\* as G has been pressed.
C18_GAdvancesOneStep ==
  "g" \notin keysHeld =>
    gameState.graphicsQuality = QualityAfter(presses["g"])

\* cells a and b are neighbours, along an axis or diagonally
Neighbours(a, b) ==
  /\ a # b
  /\ Abs(a[1] - b[1]) <= 1
  /\ Abs(a[2] - b[2]) <= 1

\* the last three ticks found the player in a cell, in a neighbour of it,
\* and in the cell again
Alternated ==
  /\ TickCompleted
  /\ Len(tickCells) = 3
  /\ tickCells[1] = tickCells[3]
  /\ Neighbours(tickCells[1], tickCells[2])

\* C19: when the player has had a tick in a cell A and then one in a
\* neighbouring cell B, the tick after the move back (and so every tick of
\* a further alternation between the two) creates no cell and destroys none.
C19_NoThrashing ==
  Alternated =>
    /\ generated = {}
    /\ unloaded = {}
    /\ loadedChunks = pre.loadedChunks
    /\ sceneMeshes = pre.sceneMeshes

\* the player has gone from a cell to a diagonal neighbour and back, with a
\* tick in each, and cells of both squares are resident
C19_Witness ==
  /\ Alternated
  /\ RD >= 1
  /\ tickCells[1][1] # tickCells[2][1]
  /\ tickCells[1][2] # tickCells[2][2]
  /\ Square(tickCells[1], RD) \cup Square(tickCells[2], RD) \subseteq loadedChunks

\* C20: every tick that starts terminates, whatever the player's position:
\* no tick is left running; and a tick that has ended has attempted at
\* most (2 * renderDistance + 1)^2 creations, all of them before its
\* unload pass (no cell it created is one it unloaded).
C20_TickTerminates ==
  /\ ~Hung
  /\ TickCompleted =>
       /\ Cardinality(generated) <= (2 * RD + 1) * (2 * RD + 1)
       /\ generated \cap unloaded = {}

(***************************************************************************)
(* C21 .. C30                                                              *)
(***************************************************************************)

\* C21: in every state, also the one a throwing generation leaves, the
\* keys of chunks are exactly loadedChunks, and every key splits on ","
\* into the two integers it was built from: the coordinates of the cell
\* whose chunk is stored under it.
C21_BookkeepingConsistent ==
  /\ DOMAIN chunks = loadedChunks
  /\ \A k \in loadedChunks :
       LET xz == ParseKey(k)
       IN /\ ~xz[1].nan
          /\ ~xz[2].nan
          /\ ChunkKey(xz[1].value, xz[2].value) = k
          /\ chunks[k].position = <<xz[1].value * config.chunkSize, 0,
                                    xz[2].value * config.chunkSize>>

\* a generation has thrown in a tick that had loaded a cell with negative
\* coordinates before it
C21_Witness ==
  /\ lastOp = "tickThrows"
  /\ ChunkKey(-1, -1) \in loadedChunks
  /\ ThrownNow # {}
  /\ generated \cap loadedChunks # {}

\* the world positions a lookup is checked at
LookupPositions == (PosX \X PosZ) \cup QueryPositions \cup {playerPosition}

\* the key of the cell that holds world position p
CellKeyOf(p) ==
  ChunkKey(CellIndex(p[1], config.chunkSize), CellIndex(p[2], config.chunkSize))

\* C22: getChunkAt(x, z) returns the chunk of the cell
\* (floor(x / chunkSize), floor(z / chunkSize)) when that cell is resident
\* and nothing when it is not, so never a cell that was unloaded; what a
\* call returned is a resident chunk or nothing; and right after a
\* completed tick the lookup at the player's position returns a chunk.
C22_LookupAgreesWithResidency ==
  /\ \A p \in LookupPositions :
       IF CellKeyOf(p) \in loadedChunks
       THEN /\ ChunkAt(p[1], p[2]) = chunks[CellKeyOf(p)]
            /\ ChunkAt(p[1], p[2]).position
                 = <<CellIndex(p[1], config.chunkSize) * config.chunkSize, 0,
                     CellIndex(p[2], config.chunkSize) * config.chunkSize>>
       ELSE ChunkAt(p[1], p[2]) = NoChunk
  /\ lastOp = "getChunkAt" =>
       \/ ret = NoChunk
       \/ \E k \in loadedChunks : ret = chunks[k]
  /\ TickCompleted => ChunkAt(playerPosition[1], playerPosition[2]) # NoChunk

\* getChunkAt has returned the chunk of a cell with a negative coordinate
\* while a cell that was resident before is resident no more
C22_Witness ==
  /\ lastOp = "getChunkAt"
  /\ ret # NoChunk
  /\ \E p \in LookupPositions :
       /\ p[1] < 0
       /\ CellKeyOf(p) \in loadedChunks
       /\ ret = chunks[CellKeyOf(p)]
  /\ \E p \in LookupPositions : ChunkAt(p[1], p[2]) = NoChunk

\* the registered, active interactables closer to the player than the
\* interaction range
InRange ==
  {o \in Registered(interactableObjects) :
     /\ Interactables[o].isActive
     /\ DistanceSquared(mesh, Interactables[o].position)
          < Units(interactionRange) * Units(interactionRange)}

DetectionPassed == playOp.name = "detection" /\ playOp.passed

\* C23: after every detection pass the current target is a registered,
\* active interactable at a distance strictly less than the interaction
\* range and no farther than any other such interactable, and it is null
\* when there is none; an inactive interactable is never the target
C23_InteractionTargeting ==
  /\ DetectionPassed =>
       IF InRange = {} THEN currentTarget = Null
       ELSE /\ currentTarget \in InRange
            /\ \A o \in InRange :
                 DistanceSquared(mesh, Interactables[currentTarget].position)
                   <= DistanceSquared(mesh, Interactables[o].position)
  /\ currentTarget # Null => Interactables[currentTarget].isActive

\* a pass has chosen the mango, with the trap as near as the mango and the
\* inactive ghost registered
C23_Witness ==
  /\ DetectionPassed
  /\ currentTarget = "Mango"
  /\ {"Trap", "Ghost"} \subseteq Registered(interactableObjects)
  /\ DistanceSquared(mesh, Interactables["Trap"].position)
       = DistanceSquared(mesh, Interactables["Mango"].position)

\* C24: after every detection pass the prompt is visible exactly when
\* there is a current target, and the object a visible prompt presents is
\* the current target, also when the target has switched from one object
\* to another
C24_PromptConsistency ==
  DetectionPassed =>
    /\ interactionPrompt.isVisible <=> currentTarget # Null
    /\ interactionPrompt.isVisible =>
         interactionPrompt.targetObject = currentTarget

\* C25: an action is executed only by a key-down of E or F while there is
\* a current target and isInteracting is false; any two executed actions
\* are at least 500 ms apart; a press the cooldown rejects changes nothing
\* of the interaction system or of the player
C25_InteractionCooldown ==
  /\ [](\A i, j \in 1..Len(executed) :
          i < j => executed[j].time - executed[i].time >= 500)
  /\ [][/\ executed' # executed =>
             /\ playOp'.name = "key"
             /\ playOp'.type = KEYDOWN
             /\ playOp'.key \in {"e", "f"}
             /\ currentTarget # Null
             /\ ~isInteracting
             /\ executed' = Append(executed, [object |-> currentTarget,
                                              time |-> now,
                                              thrown |-> executed'[Len(executed')].thrown])
        /\ (playOp'.name = "key" /\ playOp'.rejected) =>
             UNCHANGED <<interactionVars, playerVars, now>>]_vars

\* two actions were executed 500 ms apart, and the press after them was
\* rejected
C25_Witness ==
  /\ Len(executed) = 2
  /\ executed[2].time - executed[1].time = 500
  /\ playOp.name = "key"
  /\ playOp.rejected

\* C26: no error leaves performInteraction, and while isInteracting is
\* true after an executed interaction, whether its action returned or
\* threw, exactly one reset is pending, due 300 ms after the interaction;
\* the reset makes isInteracting false
C26_InteractionStateResets ==
  /\ playOp.name = "key" => ~playOp.escaped
  /\ isInteracting =>
       /\ executed # <<>>
       /\ timeouts = <<executed[Len(executed)].time + 300>>
  /\ ~isInteracting => timeouts = <<>>
  /\ playOp.name = "timeout" => ~isInteracting

\* the reset has run after an action that threw
C26_Witness ==
  /\ playOp.name = "timeout"
  /\ ~isInteracting
  /\ executed # <<>>
  /\ executed[Len(executed)].thrown

\* no food item's action has been executed twice
FoodEatenOnce ==
  \A i, j \in 1..Len(executed) :
    (i < j /\ executed[i].object = executed[j].object)
      => Interactables[executed[i].object].action # "food"

\* the current target is null or registered
TargetRegistered ==
  currentTarget = Null \/ currentTarget \in Registered(interactableObjects)

\* C27: a food item whose action has run is never executed again, and the
\* current target is always null or an object that is still registered
C27_FoodConsumedOnce == FoodEatenOnce /\ TargetRegistered

\* getInteractableCount()
InteractableCount == Len(interactableObjects)

\* C28: addInteractable of an object that is not registered raises the
\* count by one and keeps every registered object; after init the six
\* default interactables are all registered; removeInteractable removes
\* the given object and no other
C28_RegistrationKeepsEveryObject ==
  /\ playOp.name = "addInteractable" =>
       /\ InteractableCount = Len(playOp.before) + 1
       /\ Registered(interactableObjects)
            = Registered(playOp.before) \cup {playOp.object}
  /\ playOp.name = "interactionInit" =>
       /\ InteractableCount = playOp.before + Len(DefaultInteractables)
       /\ \A i \in 1..Len(DefaultInteractables) :
            DefaultInteractables[i] \in Registered(interactableObjects)
  /\ playOp.name = "removeInteractable" =>
       Registered(interactableObjects)
         = Registered(playOp.before) \ {playOp.object}

\* a stat between 0 and 100 points
WithinBounds(stat) == 0 <= stat /\ stat <= Points(100)

\* C29: health, hydration and stamina stay between 0 and 100 under frames
\* and under heal, addHydration, addStamina and addExperience with amounts
\* that are not negative; a jump begins only from the ground, with more
\* than 20 stamina
C29_PlayerStatBounds ==
  /\ [](/\ WithinBounds(stats.health)
        /\ WithinBounds(stats.hydration)
        /\ WithinBounds(stats.stamina))
  /\ [][(~playerState.isJumping /\ playerState'.isJumping) =>
          /\ mesh[2] = groundY
          /\ velocityY = 0
          /\ stats.stamina > Points(20)]_vars

\* a jump has begun with 20.5 stamina and has left 0.5
C29_Witness ==
  /\ playOp.name = "update"
  /\ playOp.jumped
  /\ playerState.isJumping
  /\ mesh[2] > groundY
  /\ stats.stamina = 1

\* C30: the level is floor(experience / 100) + 1 and never decreases, and
\* every step that raises the level leaves health at 100, also when it
\* passes several levels
C30_ExperienceLevelling ==
  /\ [](stats.level = stats.experience \div 100 + 1)
  /\ [][/\ stats'.level >= stats.level
        /\ stats'.level > stats.level => stats'.health = Points(100)]_vars

\* addExperience has passed two levels at once and healed a hurt player
C30_Witness ==
  /\ playOp.name = "addExperience"
  /\ stats.level >= playOp.before.level + 2
  /\ playOp.before.level > 1
  /\ playOp.before.health < Points(100)
  /\ stats.health = Points(100)

====
